---------------------------- MODULE Spec2Model ----------------------------
(***************************************************************************)
(* Model of the median plugin of chainlink-relay (pkg/loop/internal):      *)
(* the host-side construction of a median factory                          *)
(* (PluginMedianClient.NewMedianFactory), the plugin-side handler          *)
(* (pluginMedianServer.NewMedianFactory) and the sub-service clients of a  *)
(* median provider; and, each under a specification of its own, the        *)
(* mercury StandardOnchainConfigCodec, the sub-service handlers on the     *)
(* wire, MedianService, onceValue and Monitor.Run.                         *)
(***************************************************************************)
EXTENDS Integers, Sequences, FiniteSets, TLC

(***************************************************************************)
(* Bounds.                                                                 *)
(***************************************************************************)
\* Number of composite constructions of the construction specification.
NumConstructions == 1

\* Number of composite constructions running concurrently on one broker in
\* the specification of concurrent constructions.
NumConcurrent == 2

\* Number of sub-service calls issued through one median provider client.
NumCalls == 2

\* The codec is called with every value from -MaxSmall to MaxSmall.
MaxSmall == 2

\* Longest list of observations handed to BuildReport.
MaxObs == 2

\* Number of NewReportingPlugin calls made on one MedianService.
NumPluginCalls == 2

\* Number of goroutines calling the function onceValue returned.
NumCallers == 3

\* Number of Named, With and Helper applications made in a row.
MaxOps == 4

\* Number of goroutines calling Accept on one hclSinkAdapter.
NumAcceptors == 3

Constructions == 1..NumConstructions

ConcurrentConstructions == 1..NumConcurrent

Calls == 1..NumCalls

(***************************************************************************)
(* State.                                                                  *)
(***************************************************************************)
VARIABLES
    brokerNext,  \* per side, the next ID the side's broker hands out
    open,        \* the Resources (listeners and connections) that are open
    closeLog,    \* per construction, the Resources it closed, in order
    hostServed,  \* sub-services registered on the host side
    registry,    \* composite sub-services registered on the plugin side
    client,      \* per construction, the state of the host-side closure
    server,      \* per construction, the state of the plugin-side handler
    stopped,     \* whether the broker's StopCh has been closed
    calls,       \* per call, the state of a sub-service client call
    codec,       \* the last call of StandardOnchainConfigCodec and its result
    rpc,         \* the last sub-service RPC, from client call to client return
    svc,         \* the MedianService: its plugin service and its calls
    once,        \* the function onceValue returned and the goroutines calling it
    mon,         \* Monitor.Run: its context and its routines
    sink,        \* the hclSinkAdapter and the goroutines calling Accept
    lg           \* a built-in logger and the operation that derived it

constructionVars ==
    <<brokerNext, open, closeLog, hostServed, registry, client, server>>

callVars == <<stopped, calls>>

\* The variables of the other components, which the constructions and the
\* sub-service calls above leave alone.
otherVars == <<codec, rpc, svc, once, mon, sink, lg>>

vars == <<brokerNext, open, closeLog, hostServed, registry, client, server,
          stopped, calls, codec, rpc, svc, once, mon, sink, lg>>

(***************************************************************************)
(* Values.                                                                 *)
(***************************************************************************)
\* The nil error.
NoErr == [kind |-> "nil", Name |-> "", ID |-> 0, Err |-> ""]

\* The zero resource{}.
NoRes == [side |-> "", name |-> "", id |-> 0, owner |-> 0]

\* Causes with which the broker's dial can fail.
DialErrs == {"unknown id", "refused"}

\* The error the underlying types.PluginMedian implementation can return.
ImplErr == [kind |-> "impl", Name |-> "", ID |-> 0, Err |-> "impl failed"]

\* The error of a failed broker Accept, as serve reports it.
ErrConnAccept(name, id) ==
    [kind |-> "ErrConnAccept", Name |-> name, ID |-> id, Err |-> "accept failed"]

\* ErrConnDial{Name, ID, Err}.
ErrConnDial(name, id, cause) ==
    [kind |-> "ErrConnDial", Name |-> name, ID |-> id, Err |-> cause]

Range(s) == {s[i] : i \in 1..Len(s)}

\* The four dependencies in the order both sides handle them.
DepNames ==
    <<"DataSource", "JuelsPerFeeCoinDataSource", "MedianProvider", "ErrorLog">>

(***************************************************************************)
(* The broker (brokerExt): serveNew, serve, dial, closeAll.                *)
(***************************************************************************)
\* closeAll(deps...): releases the Resources in the order given.
ClosedBy(log, rs) == log \o rs

OpenAfterClose(o, rs) == o \ Range(rs)

\* The Resource serve/serveNew returns for a sub-service of a construction.
Listener(side, name, id, c) ==
    [side |-> side, name |-> name, id |-> id, owner |-> c]

\* The Resource the handler builds from a dialed connection.
Conn(name, id, c) == [side |-> "plugin", name |-> name, id |-> id, owner |-> c]


(***************************************************************************)
(* Host side: PluginMedianClient.NewMedianFactory and the closure it       *)
(* hands to newClientConn.                                                 *)
(***************************************************************************)
\* Position of a dependency in DepNames (0 when pc names no dependency).
DepIndex(pc) ==
    IF \E k \in 1..4 : DepNames[k] = pc
    THEN CHOOSE k \in 1..4 : DepNames[k] = pc
    ELSE 0

\* Mutant of ClientVia: the provider is always registered afresh.
ClientViaAlwaysNew(k, grpcProvider) == "serveNew"

\* The broker operation that registers dependency k: the provider is proxied
\* with serve when it is a GRPCClientConn, everything else uses serveNew.
ClientVia(k, grpcProvider) ==
    IF DepNames[k] = "MedianProvider" /\ grpcProvider THEN "serve" ELSE "serveNew"

\* What the closure returns when a step fails: return 0, nil, err.
ClientFailReturn(cl, err) == [id |-> 0, deps |-> <<>>, err |-> err]

\* What the closure returns on success:
\* return reply.ReportingPluginFactoryID, nil, nil.
ClientOkReturn(cl, reply) ==
    [id |-> reply.ReportingPluginFactoryID, deps |-> <<>>, err |-> NoErr]

\* Mutant of NewMedianFactoryRequest: the IDs of the two data sources change
\* places.
NewMedianFactoryRequestSwapped(cl) ==
    [MedianProviderID            |-> cl.ids["MedianProvider"],
     DataSourceID                |-> cl.ids["JuelsPerFeeCoinDataSource"],
     JuelsPerFeeCoinDataSourceID |-> cl.ids["DataSource"],
     ErrorLogID                  |-> cl.ids["ErrorLog"]]

\* The composite request built from the four IDs.
NewMedianFactoryRequest(cl) ==
    [MedianProviderID            |-> cl.ids["MedianProvider"],
     DataSourceID                |-> cl.ids["DataSource"],
     JuelsPerFeeCoinDataSourceID |-> cl.ids["JuelsPerFeeCoinDataSource"],
     ErrorLogID                  |-> cl.ids["ErrorLog"]]

NoReq ==
    [MedianProviderID |-> 0, DataSourceID |-> 0,
     JuelsPerFeeCoinDataSourceID |-> 0, ErrorLogID |-> 0]

NoOut == [id |-> 0, deps |-> <<>>, err |-> NoErr]

InitClient ==
    [pc |-> "init", grpcProvider |-> FALSE,
     ids |-> [n \in Range(DepNames) |-> 0],
     deps |-> <<>>, out |-> NoOut,
     factory |-> FALSE, factoryErr |-> NoErr,
     cc |-> [id |-> 0, deps |-> <<>>]]

\* Mutant of NewMedianFactoryReturn: an error is reported with a nil handle.
NewMedianFactoryReturnErr == [factory |-> FALSE, err |-> ErrConnAccept("", 0)]

\* return newReportingPluginFactoryClient(m.pluginClient.brokerExt, cc), nil.
NewMedianFactoryReturn == [factory |-> TRUE, err |-> NoErr]

\* PluginMedianClient.NewMedianFactory: builds the lazy client connection and
\* returns the factory client with a nil error.  grpcProvider tells whether
\* the provider passed in implements GRPCClientConn.
NewMedianFactoryCall(c, grpcProvider) ==
    /\ client[c].pc = "init"
    /\ client' = [client EXCEPT ![c].pc = "DataSource",
                                ![c].grpcProvider = grpcProvider,
                                ![c].factory = NewMedianFactoryReturn.factory,
                                ![c].factoryErr = NewMedianFactoryReturn.err]
    /\ UNCHANGED <<brokerNext, open, closeLog, hostServed, registry, server>>
    /\ UNCHANGED <<callVars, otherVars>>

\* One registration step of the closure: serveNew (or serve) of the
\* dependency client[c].pc names; ok is whether the broker accepts.
ClientRegister(c, ok) ==
    LET cl   == client[c]
        k    == DepIndex(cl.pc)
        name == DepNames[k]
        id   == brokerNext["host"]
        res  == Listener("host", name, id, c)
    IN  /\ k \in 1..4
        /\ brokerNext' = [brokerNext EXCEPT !["host"] = id + 1]
        /\ IF ok
           THEN /\ open' = open \cup {res}
                /\ hostServed' = hostServed \cup
                       {[id |-> id, name |-> name, owner |-> c,
                         via |-> ClientVia(k, cl.grpcProvider)]}
                /\ client' = [client EXCEPT
                       ![c].ids[name] = id,
                       ![c].deps = Append(@, res),
                       ![c].pc = IF k < 4 THEN DepNames[k + 1] ELSE "request"]
           ELSE /\ client' = [client EXCEPT
                       ![c].out = ClientFailReturn(cl, ErrConnAccept(name, id)),
                       ![c].pc = "returned"]
                /\ UNCHANGED <<open, hostServed>>
        /\ UNCHANGED <<closeLog, registry, server>>
        /\ UNCHANGED <<callVars, otherVars>>

\* m.median.NewMedianFactory(ctx, request): the composite request is sent.
ClientRequest(c) ==
    /\ client[c].pc = "request"
    /\ server[c].pc = "idle"
    /\ client' = [client EXCEPT ![c].pc = "await"]
    /\ server' = [server EXCEPT ![c].pc = "DataSource",
                                ![c].req = NewMedianFactoryRequest(client[c])]
    /\ UNCHANGED <<brokerNext, open, closeLog, hostServed, registry>>
    /\ UNCHANGED <<callVars, otherVars>>

\* The reply (or error) of the composite request reaches the closure, which
\* returns.
ClientReply(c) ==
    /\ client[c].pc = "await"
    /\ server[c].pc = "returned"
    /\ client' = [client EXCEPT
           ![c].out = IF server[c].err # NoErr
                      THEN ClientFailReturn(client[c], server[c].err)
                      ELSE ClientOkReturn(client[c], server[c].reply),
           ![c].pc = "returned"]
    /\ server' = [server EXCEPT ![c].pc = "delivered"]
    /\ UNCHANGED <<brokerNext, open, closeLog, hostServed, registry>>
    /\ UNCHANGED <<callVars, otherVars>>

\* newClientConn's use of the closure's result: on an error the returned deps
\* are closed and the error propagates; otherwise the composite ID and the
\* returned deps become the client connection's.
NewClientConnSettle(c) ==
    LET out == client[c].out
    IN  /\ client[c].pc = "returned"
        /\ IF out.err # NoErr
           THEN /\ closeLog' = [closeLog EXCEPT ![c] = ClosedBy(@, out.deps)]
                /\ open' = OpenAfterClose(open, out.deps)
                /\ client' = [client EXCEPT ![c].pc = "failed"]
           ELSE /\ client' = [client EXCEPT
                       ![c].pc = "connected",
                       ![c].cc = [id |-> out.id, deps |-> out.deps]]
                /\ UNCHANGED <<closeLog, open>>
        /\ UNCHANGED <<brokerNext, hostServed, registry, server>>
        /\ UNCHANGED <<callVars, otherVars>>

(***************************************************************************)
(* Plugin side: pluginMedianServer.NewMedianFactory.                       *)
(***************************************************************************)
InitServer ==
    [pc |-> "idle", req |-> NoReq,
     res |-> [n \in Range(DepNames) |-> NoRes],
     dials |-> <<>>, dialErr |-> "",
     implCalled |-> FALSE, implErr |-> NoErr, registered |-> 0,
     err |-> NoErr, reply |-> [ReportingPluginFactoryID |-> 0]]

\* The handler's local Resources.
dsRes(s) == s.res["DataSource"]

juelsRes(s) == s.res["JuelsPerFeeCoinDataSource"]

providerRes(s) == s.res["MedianProvider"]

errorLogRes(s) == s.res["ErrorLog"]

\* The ID the handler dials at step k.
DialID(req, k) ==
    CASE k = 1 -> req.DataSourceID
      [] k = 2 -> req.JuelsPerFeeCoinDataSourceID
      [] k = 3 -> req.MedianProviderID
      [] k = 4 -> req.ErrorLogID

\* The name the handler gives the Resource of the connection dialed at step k.
DialResName(k) ==
    CASE k = 1 -> "DataSource"
      [] k = 2 -> "JuelsPerFeeCoinDataSource"
      [] k = 3 -> "MedianProvider"
      [] k = 4 -> "ErrorLog"

\* Mutant of DialError: the third branch reports the second dependency.
DialErrorMisnamed(req, k, cause) ==
    CASE k = 1 -> ErrConnDial("DataSource", req.DataSourceID, cause)
      [] k = 2 -> ErrConnDial("JuelsPerFeeCoinDataSource",
                              req.JuelsPerFeeCoinDataSourceID, cause)
      [] k = 3 -> ErrConnDial("JuelsPerFeeCoinDataSource",
                              req.JuelsPerFeeCoinDataSourceID, cause)
      [] k = 4 -> ErrConnDial("ErrorLog", req.ErrorLogID, cause)

\* The ErrConnDial the handler returns when the dial of step k fails.
DialError(req, k, cause) ==
    CASE k = 1 -> ErrConnDial("DataSource", req.DataSourceID, cause)
      [] k = 2 -> ErrConnDial("JuelsPerFeeCoinDataSource",
                              req.JuelsPerFeeCoinDataSourceID, cause)
      [] k = 3 -> ErrConnDial("MedianProvider", req.MedianProviderID, cause)
      [] k = 4 -> ErrConnDial("ErrorLog", req.ErrorLogID, cause)

\* Mutant of RollbackArgs: the last branch forgets providerRes.
RollbackArgsShort(s, k) ==
    CASE k = 1 -> <<>>
      [] k = 2 -> <<dsRes(s)>>
      [] k = 3 -> <<dsRes(s), juelsRes(s)>>
      [] k = 4 -> <<dsRes(s), juelsRes(s)>>

\* Mutant of RollbackArgs: the Resources are handed over last-acquired first.
RollbackArgsReversed(s, k) ==
    CASE k = 1 -> <<>>
      [] k = 2 -> <<dsRes(s)>>
      [] k = 3 -> <<juelsRes(s), dsRes(s)>>
      [] k = 4 -> <<providerRes(s), juelsRes(s), dsRes(s)>>

\* Mutant of RollbackArgs: a failed dial returns without closing anything.
RollbackArgsNone(s, k) == <<>>

\* Mutant of RollbackArgs: the Resources are kept in fields shared by all
\* requests instead of locals, so a rollback closes those of the first one.
RollbackArgsShared(s, k) ==
    SelectSeq(
        CASE k = 1 -> <<>>
          [] k = 2 -> <<dsRes(server[1])>>
          [] k = 3 -> <<dsRes(server[1]), juelsRes(server[1])>>
          [] k = 4 -> <<dsRes(server[1]), juelsRes(server[1]),
                        providerRes(server[1])>>,
        LAMBDA r : r # NoRes)

\* The Resources the handler hands to closeAll when the dial of step k fails.
RollbackArgs(s, k) ==
    CASE k = 1 -> <<>>
      [] k = 2 -> <<dsRes(s)>>
      [] k = 3 -> <<dsRes(s), juelsRes(s)>>
      [] k = 4 -> <<dsRes(s), juelsRes(s), providerRes(s)>>

\* Mutant of ImplFailArgs: errorLogRes is forgotten.
ImplFailArgsShort(s) == <<dsRes(s), juelsRes(s), providerRes(s)>>

\* The Resources the handler hands to closeAll when the implementation fails.
ImplFailArgs(s) == <<dsRes(s), juelsRes(s), providerRes(s), errorLogRes(s)>>

\* The error the handler returns when the implementation fails with err.
ImplReturn(err) == err

\* Mutant of CompositeDeps: errorLogRes is not handed to the composite.
CompositeDepsShort(s) == <<dsRes(s), juelsRes(s), providerRes(s)>>

\* The dependents the handler hands to serveNew with the composite.
CompositeDeps(s) == <<dsRes(s), juelsRes(s), providerRes(s), errorLogRes(s)>>

\* The dependents serve releases itself when it cannot accept the new ID.
ServeFailReleases(deps) == deps

\* Whether the broker can resolve id: the counterpart serves it.
Dialable(id) == \E r \in open : r.side = "host" /\ r.id = id

\* One dial step of the handler.  cause = "" is a dial that succeeds.
ServerDial(c, cause) ==
    LET s    == server[c]
        k    == DepIndex(s.pc)
        id   == DialID(s.req, k)
        name == DialResName(k)
        conn == Conn(name, id, c)
    IN  /\ k \in 1..4
        /\ cause = "" => Dialable(id)
        /\ IF cause = ""
           THEN /\ open' = open \cup {conn}
                /\ server' = [server EXCEPT
                       ![c].res[name] = conn,
                       ![c].dials = Append(@, id),
                       ![c].pc = IF k < 4 THEN DepNames[k + 1] ELSE "impl"]
                /\ UNCHANGED closeLog
           ELSE /\ closeLog' = [closeLog EXCEPT
                       ![c] = ClosedBy(@, RollbackArgs(s, k))]
                /\ open' = OpenAfterClose(open, RollbackArgs(s, k))
                /\ server' = [server EXCEPT
                       ![c].dials = Append(@, id),
                       ![c].dialErr = cause,
                       ![c].err = DialError(s.req, k, cause),
                       ![c].pc = "returned"]
        /\ UNCHANGED <<brokerNext, hostServed, registry, client>>
        /\ UNCHANGED <<callVars, otherVars>>

\* m.impl.NewMedianFactory(ctx, provider, dataSource, juelsPerFeeCoin,
\* errorLog); ok is whether the implementation succeeds.
ServerImpl(c, ok) ==
    LET s == server[c]
    IN  /\ s.pc = "impl"
        /\ IF ok
           THEN /\ server' = [server EXCEPT ![c].implCalled = TRUE,
                                            ![c].pc = "serveNew"]
                /\ UNCHANGED <<closeLog, open>>
           ELSE /\ closeLog' = [closeLog EXCEPT
                       ![c] = ClosedBy(@, ImplFailArgs(s))]
                /\ open' = OpenAfterClose(open, ImplFailArgs(s))
                /\ server' = [server EXCEPT ![c].implCalled = TRUE,
                                            ![c].implErr = ImplErr,
                                            ![c].err = ImplReturn(ImplErr),
                                            ![c].pc = "returned"]
        /\ UNCHANGED <<brokerNext, hostServed, registry, client>>
        /\ UNCHANGED <<callVars, otherVars>>

\* m.serveNew("ReportingPluginProvider", ..., dsRes, juelsRes, providerRes,
\* errorLogRes) and the reply; ok is whether the broker accepts.
ServerServeNew(c, ok) ==
    LET s    == server[c]
        id   == brokerNext["plugin"]
        deps == CompositeDeps(s)
    IN  /\ s.pc = "serveNew"
        /\ brokerNext' = [brokerNext EXCEPT !["plugin"] = id + 1]
        /\ IF ok
           THEN /\ registry' = registry \cup
                       {[id |-> id, name |-> "ReportingPluginProvider",
                         deps |-> deps, owner |-> c]}
                /\ open' = open \cup
                       {Listener("plugin", "ReportingPluginProvider", id, c)}
                /\ server' = [server EXCEPT
                       ![c].registered = @ + 1,
                       ![c].reply = [ReportingPluginFactoryID |-> id],
                       ![c].pc = "returned"]
                /\ UNCHANGED closeLog
           ELSE /\ closeLog' = [closeLog EXCEPT
                       ![c] = ClosedBy(@, ServeFailReleases(deps))]
                /\ open' = OpenAfterClose(open, ServeFailReleases(deps))
                /\ server' = [server EXCEPT
                       ![c].err = ErrConnAccept("ReportingPluginProvider", id),
                       ![c].pc = "returned"]
                /\ UNCHANGED registry
        /\ UNCHANGED <<hostServed, client>>
        /\ UNCHANGED <<callVars, otherVars>>

(***************************************************************************)
(* Sub-service clients of a median provider: reportCodecClient,            *)
(* onchainConfigCodecClient and medianContractClient.                      *)
(***************************************************************************)
\* The methods of the three clients.
ReportCodecMethods == {"BuildReport", "MedianFromReport", "MaxReportLength"}

OnchainConfigCodecMethods == {"Encode", "Decode"}

MedianContractMethods == {"LatestTransmissionDetails", "LatestRoundRequested"}

Methods ==
    ReportCodecMethods \cup OnchainConfigCodecMethods \cup MedianContractMethods

\* Mutant of UsesStopCtx: Encode no longer derives its context from StopCh.
UsesStopCtxNotEncode(method) ==
    method \in {"BuildReport", "MedianFromReport", "MaxReportLength", "Decode"}

\* Whether the method derives its context from the broker with stopCtx();
\* the median contract methods pass the caller's ctx on instead.
UsesStopCtx(method) ==
    method \in {"BuildReport", "MedianFromReport", "MaxReportLength",
                "Encode", "Decode"}

\* Whether the context of a call is done: a stopCtx context is done once
\* StopCh is closed, a caller's context once the caller cancelled it.
CtxDone(call, stop) ==
    IF UsesStopCtx(call.method) THEN stop ELSE call.callerDone

InitCall ==
    [state |-> "idle", method |-> "", callerDone |-> FALSE, trips |-> 0]

\* A client method is called: the RPC is issued under the call's context.
\* With the context already done the RPC fails before anything is sent.
CallStart(i, method, callerDone) ==
    LET call == [calls[i] EXCEPT !.method = method, !.callerDone = callerDone]
    IN  /\ calls[i].state = "idle"
        /\ UsesStopCtx(method) => ~callerDone
        /\ calls' = [calls EXCEPT ![i] =
               IF CtxDone(call, stopped)
               THEN [call EXCEPT !.state = "failed"]
               ELSE [call EXCEPT !.state = "inflight", !.trips = @ + 1]]
        /\ UNCHANGED stopped
        /\ UNCHANGED <<constructionVars, otherVars>>

\* The remote side replies to a call whose context is still live.
CallReply(i) ==
    /\ calls[i].state = "inflight"
    /\ ~CtxDone(calls[i], stopped)
    /\ calls' = [calls EXCEPT ![i].state = "ok"]
    /\ UNCHANGED stopped
    /\ UNCHANGED <<constructionVars, otherVars>>

\* A call in flight whose context is done returns the context's error.
CallCancelled(i) ==
    /\ calls[i].state = "inflight"
    /\ CtxDone(calls[i], stopped)
    /\ calls' = [calls EXCEPT ![i].state = "failed"]
    /\ UNCHANGED stopped
    /\ UNCHANGED <<constructionVars, otherVars>>

\* The caller of a median contract method cancels the ctx it passed.
CallerCancel(i) ==
    /\ calls[i].state = "inflight"
    /\ ~UsesStopCtx(calls[i].method)
    /\ ~calls[i].callerDone
    /\ calls' = [calls EXCEPT ![i].callerDone = TRUE]
    /\ UNCHANGED stopped
    /\ UNCHANGED <<constructionVars, otherVars>>

\* The broker's StopCh is closed.
Stop ==
    /\ ~stopped
    /\ stopped' = TRUE
    /\ UNCHANGED calls
    /\ UNCHANGED <<constructionVars, otherVars>>

(***************************************************************************)
(* big.Int values and libocr's bigbigendian: a value is a sign and a       *)
(* magnitude, the magnitude a big-endian byte string without leading zero. *)
(***************************************************************************)
Big(neg, mag) == [nil |-> FALSE, neg |-> neg, mag |-> mag]

\* A nil *big.Int.
NilBig == [nil |-> TRUE, neg |-> FALSE, mag |-> <<>>]

RECURSIVE NatBytes(_)
NatBytes(n) ==
    IF n = 0 THEN <<>> ELSE Append(NatBytes(n \div 256), n % 256)

\* big.NewInt(i).
NewInt(i) == IF i < 0 THEN Big(TRUE, NatBytes(-i)) ELSE Big(FALSE, NatBytes(i))

RECURSIVE LexCmp(_, _)
LexCmp(a, b) ==
    IF a = <<>> THEN 0
    ELSE IF Head(a) < Head(b) THEN -1
    ELSE IF Head(a) > Head(b) THEN 1
    ELSE LexCmp(Tail(a), Tail(b))

MagCmp(a, b) ==
    IF Len(a) < Len(b) THEN -1
    ELSE IF Len(a) > Len(b) THEN 1
    ELSE LexCmp(a, b)

\* x.Cmp(y): -1, 0 or 1.
Cmp(x, y) ==
    IF x.neg /\ ~y.neg THEN -1
    ELSE IF ~x.neg /\ y.neg THEN 1
    ELSE IF x.neg THEN MagCmp(y.mag, x.mag)
    ELSE MagCmp(x.mag, y.mag)

Zeros(n) == [i \in 1..n |-> 0]

RECURSIVE StripZeros(_)
StripZeros(b) ==
    IF b # <<>> /\ Head(b) = 0 THEN StripZeros(Tail(b)) ELSE b

RECURSIVE AddOne(_)
AddOne(b) ==
    IF b = <<>> THEN <<>>
    ELSE LET n == Len(b)
         IN  IF b[n] = 255
             THEN Append(AddOne(SubSeq(b, 1, n - 1)), 0)
             ELSE Append(SubSeq(b, 1, n - 1), b[n] + 1)

\* Two's complement negation of a fixed-width byte string.
TwosNegate(b) == AddOne([i \in 1..Len(b) |-> 255 - b[i]])

\* Whether x is in the range of an n-byte two's complement word.
FitsSigned(n, x) ==
    \/ Len(x.mag) < n
    \/ Len(x.mag) = n /\ x.mag[1] < 128
    \/ x.neg /\ Len(x.mag) = n /\ x.mag = <<128>> \o Zeros(n - 1)

\* bigbigendian.SerializeSigned(n, x): the n-byte two's complement of x, or
\* an error when x does not fit.
SerializeSigned(n, x) ==
    IF ~FitsSigned(n, x)
    THEN [bytes |-> <<>>, err |-> "does not fit"]
    ELSE LET padded == Zeros(n - Len(x.mag)) \o x.mag
         IN  [bytes |-> IF x.neg THEN TwosNegate(padded) ELSE padded,
              err |-> ""]

\* bigbigendian.DeserializeSigned(n, b): the value of the n-byte two's
\* complement word b, or an error when b is not n bytes long.
DeserializeSigned(n, b) ==
    IF Len(b) # n
    THEN [val |-> NilBig, err |-> "wrong length"]
    ELSE IF b[1] >= 128
    THEN [val |-> Big(TRUE, StripZeros(TwosNegate(b))), err |-> ""]
    ELSE [val |-> Big(FALSE, StripZeros(b)), err |-> ""]

(***************************************************************************)
(* mercury.StandardOnchainConfigCodec.                                     *)
(***************************************************************************)
onchainConfigVersion == 1

onchainConfigVersionBig == NewInt(onchainConfigVersion)

onchainConfigEncodedLength == 96

\* OnchainConfig{Min, Max} and the zero OnchainConfig{}.
OnchainConfig(min, max) == [Min |-> min, Max |-> max]

ZeroOnchainConfig == OnchainConfig(NilBig, NilBig)

\* Mutant of Decode: min and max are not compared.
DecodeUnordered(b) ==
    IF Len(b) # onchainConfigEncodedLength
    THEN [cfg |-> ZeroOnchainConfig, err |-> "unexpected length"]
    ELSE LET v   == DeserializeSigned(32, SubSeq(b, 1, 32))
             min == DeserializeSigned(32, SubSeq(b, 33, 64))
             max == DeserializeSigned(32, SubSeq(b, 65, 96))
         IN  IF Cmp(v.val, onchainConfigVersionBig) # 0
             THEN [cfg |-> ZeroOnchainConfig, err |-> "unexpected version"]
             ELSE [cfg |-> OnchainConfig(min.val, max.val), err |-> ""]

\* StandardOnchainConfigCodec.Decode(b).
Decode(b) ==
    IF Len(b) # onchainConfigEncodedLength
    THEN [cfg |-> ZeroOnchainConfig, err |-> "unexpected length"]
    ELSE LET v   == DeserializeSigned(32, SubSeq(b, 1, 32))
             min == DeserializeSigned(32, SubSeq(b, 33, 64))
             max == DeserializeSigned(32, SubSeq(b, 65, 96))
         IN  IF v.err # ""
             THEN [cfg |-> ZeroOnchainConfig, err |-> v.err]
             ELSE IF Cmp(v.val, onchainConfigVersionBig) # 0
             THEN [cfg |-> ZeroOnchainConfig, err |-> "unexpected version"]
             ELSE IF min.err # ""
             THEN [cfg |-> ZeroOnchainConfig, err |-> min.err]
             ELSE IF max.err # ""
             THEN [cfg |-> ZeroOnchainConfig, err |-> max.err]
             ELSE IF ~(Cmp(min.val, max.val) <= 0)
             THEN [cfg |-> ZeroOnchainConfig, err |-> "min greater than max"]
             ELSE [cfg |-> OnchainConfig(min.val, max.val), err |-> ""]

\* Mutant of Encode: a config with Min above Max is refused.
EncodeChecked(c) ==
    LET verBytes == SerializeSigned(32, onchainConfigVersionBig)
        minBytes == SerializeSigned(32, c.Min)
        maxBytes == SerializeSigned(32, c.Max)
    IN  IF minBytes.err # "" THEN [bytes |-> <<>>, err |-> minBytes.err]
        ELSE IF maxBytes.err # "" THEN [bytes |-> <<>>, err |-> maxBytes.err]
        ELSE IF Cmp(c.Min, c.Max) > 0
        THEN [bytes |-> <<>>, err |-> "min greater than max"]
        ELSE [bytes |-> verBytes.bytes \o minBytes.bytes \o maxBytes.bytes,
              err |-> ""]

\* Mutant of Encode: the max word is appended before the min word.
EncodeSwapped(c) ==
    LET verBytes == SerializeSigned(32, onchainConfigVersionBig)
        minBytes == SerializeSigned(32, c.Min)
        maxBytes == SerializeSigned(32, c.Max)
    IN  IF minBytes.err # "" THEN [bytes |-> <<>>, err |-> minBytes.err]
        ELSE IF maxBytes.err # "" THEN [bytes |-> <<>>, err |-> maxBytes.err]
        ELSE [bytes |-> verBytes.bytes \o maxBytes.bytes \o minBytes.bytes,
              err |-> ""]

\* StandardOnchainConfigCodec.Encode(c).
Encode(c) ==
    LET verBytes == SerializeSigned(32, onchainConfigVersionBig)
        minBytes == SerializeSigned(32, c.Min)
        maxBytes == SerializeSigned(32, c.Max)
    IN  IF verBytes.err # "" THEN [bytes |-> <<>>, err |-> verBytes.err]
        ELSE IF minBytes.err # "" THEN [bytes |-> <<>>, err |-> minBytes.err]
        ELSE IF maxBytes.err # "" THEN [bytes |-> <<>>, err |-> maxBytes.err]
        ELSE [bytes |-> verBytes.bytes \o minBytes.bytes \o maxBytes.bytes,
              err |-> ""]

\* The values the codec is called with: the small ones, those of the
\* scenarios, the two ends of the 32-byte signed range and the first value
\* beyond either end.
MaxInt256 == Big(FALSE, <<127>> \o [i \in 1..31 |-> 255])

MinInt256 == Big(TRUE, <<128>> \o Zeros(31))

AboveInt256 == Big(FALSE, <<128>> \o Zeros(31))

BelowInt256 == Big(TRUE, <<128>> \o Zeros(30) \o <<1>>)

CodecValues ==
    {NewInt(i) : i \in (-MaxSmall)..MaxSmall} \cup
    {NewInt(100), NewInt(200), NewInt(300), NewInt(-256), NewInt(65535)} \cup
    {MaxInt256, MinInt256, AboveInt256, BelowInt256}

CodecConfigs == {OnchainConfig(a, b) : a, b \in CodecValues}

\* The 32-byte words buffers are made of: the words of the values that fit,
\* and as version words also 0, 2, 257 and a word whose first byte is 1.
ValueWords ==
    {SerializeSigned(32, x).bytes : x \in {y \in CodecValues : FitsSigned(32, y)}}

VersionWords ==
    {SerializeSigned(32, NewInt(i)).bytes : i \in {0, 1, 2, 257, -1}} \cup
    {<<1>> \o Zeros(31)}

\* The buffers Decode is called with: well-formed ones and ones too short or
\* too long by a byte or a word.
FullBuffers == {v \o a \o b : v \in VersionWords, a, b \in ValueWords}

CodecBuffers ==
    FullBuffers \cup
    {SubSeq(b, 1, n) : b \in {v \o a \o a : v \in VersionWords, a \in ValueWords},
                       n \in {0, 32, 64, 95}} \cup
    {b \o t : b \in {v \o a \o a : v \in VersionWords, a \in ValueWords},
              t \in {<<0>>, Zeros(32)}}

NoEncoded == [bytes |-> <<>>, err |-> ""]

NoDecoded == [cfg |-> ZeroOnchainConfig, err |-> ""]

InitCodec ==
    [op |-> "none", cfg |-> ZeroOnchainConfig, buf |-> <<>>,
     enc |-> NoEncoded, dec |-> NoDecoded]

\* Encode is called with c.
EncodeCall(c) ==
    /\ codec.op = "none"
    /\ codec' = [op |-> "Encode", cfg |-> c, buf |-> <<>>,
                 enc |-> Encode(c), dec |-> NoDecoded]
    /\ UNCHANGED <<constructionVars, callVars, sink, lg, rpc, svc, once, mon>>

\* Decode is called with b.
DecodeCall(b) ==
    /\ codec.op = "none"
    /\ codec' = [op |-> "Decode", cfg |-> ZeroOnchainConfig, buf |-> b,
                 enc |-> NoEncoded, dec |-> Decode(b)]
    /\ UNCHANGED <<constructionVars, callVars, sink, lg, rpc, svc, once, mon>>

\* Decode is called with the bytes the last Encode returned.
DecodeEncoded ==
    /\ codec.op = "Encode"
    /\ codec.enc.err = ""
    /\ codec' = [codec EXCEPT !.op = "EncodeDecode",
                              !.buf = codec.enc.bytes,
                              !.dec = Decode(codec.enc.bytes)]
    /\ UNCHANGED <<constructionVars, callVars, sink, lg, rpc, svc, once, mon>>

(***************************************************************************)
(* The sub-services of a median provider on the wire: one exchange between *)
(* a client (reportCodecClient, medianContractClient,                      *)
(* onchainConfigCodecClient) and the handler of its server.  An error is   *)
(* its message, "" is the nil error.                                       *)
(***************************************************************************)
\* math.MaxUint8.
MaxUint8 == 255

\* pb.NewBigIntFromInt(i): the sign and the magnitude bytes of i.
PbBigInt(x) ==
    IF x.nil THEN [nil |-> TRUE, Negative |-> FALSE, Value |-> <<>>]
    ELSE [nil |-> FALSE, Negative |-> x.neg, Value |-> x.mag]

\* (*pb.BigInt).Int(): SetBytes(Value), negated when Negative.
PbInt(w) ==
    IF w.nil THEN NilBig
    ELSE LET mag == StripZeros(w.Value)
         IN  Big(w.Negative /\ mag # <<>>, mag)

\* The conversion of an unsigned integer to uint8.
Uint8(n) == n % (MaxUint8 + 1)

\* Mutant of BuildReportRequest: Value and JulesPerFeeCoin change places.
BuildReportRequestSwapped(observations) ==
    [i \in 1..Len(observations) |->
        [Timestamp       |-> observations[i].Timestamp,
         Value           |-> PbBigInt(observations[i].JuelsPerFeeCoin),
         JulesPerFeeCoin |-> PbBigInt(observations[i].Value),
         Observer        |-> observations[i].Observer]]

\* The pb.BuildReportRequest reportCodecClient.BuildReport builds.
BuildReportRequest(observations) ==
    [i \in 1..Len(observations) |->
        [Timestamp       |-> observations[i].Timestamp,
         Value           |-> PbBigInt(observations[i].Value),
         JulesPerFeeCoin |-> PbBigInt(observations[i].JuelsPerFeeCoin),
         Observer        |-> observations[i].Observer]]

\* Mutant of ObserverError: only the first observation is checked.
ObserverErrorFirstOnly(request) ==
    IF Len(request) > 0 /\ request[1].Observer > MaxUint8
    THEN "expected uint8 Observer"
    ELSE ""

\* The error with which reportCodecServer.BuildReport leaves its loop.
ObserverError(request) ==
    IF \E i \in 1..Len(request) : request[i].Observer > MaxUint8
    THEN "expected uint8 Observer"
    ELSE ""

\* The observations reportCodecServer.BuildReport hands to the
\* implementation.
ServerObservations(request) ==
    [i \in 1..Len(request) |->
        [Timestamp       |-> request[i].Timestamp,
         Value           |-> PbInt(request[i].Value),
         JuelsPerFeeCoin |-> PbInt(request[i].JulesPerFeeCoin),
         Observer        |-> Uint8(request[i].Observer)]]

\* The nil reply.
NilReply == [nil |-> TRUE]

\* The reply a handler builds from the results of the implementation.
HandlerReply(method, val) ==
    CASE method = "BuildReport" -> [Report |-> val]
      [] method = "MedianFromReport" -> [Median |-> PbBigInt(val)]
      [] method = "MaxReportLength" -> [Max |-> val]
      [] method = "LatestTransmissionDetails" ->
            [ConfigDigest    |-> val.digest,
             Epoch           |-> val.epoch,
             Round           |-> val.round,
             LatestAnswer    |-> PbBigInt(val.latestAnswer),
             LatestTimestamp |-> val.latestTimestamp]
      [] method = "LatestRoundRequested" ->
            [ConfigDigest |-> val.digest,
             Epoch        |-> val.epoch,
             Round        |-> val.round]
      [] method = "Encode" -> [Encoded |-> val]
      [] method = "Decode" ->
            [Min |-> PbBigInt(val.Min), Max |-> PbBigInt(val.Max)]

\* Mutant of ServerHandler: Decode wraps the error of the implementation.
ServerHandlerWrapping(method, request, implOut) ==
    IF method = "BuildReport" /\ ObserverError(request) # ""
    THEN [called |-> FALSE, args |-> <<>>, reply |-> NilReply,
          err |-> ObserverError(request)]
    ELSE [called |-> TRUE,
          args   |-> IF method = "BuildReport"
                     THEN ServerObservations(request) ELSE <<>>,
          reply  |-> IF implOut.err # "" THEN NilReply
                     ELSE HandlerReply(method, implOut.val),
          err    |-> IF implOut.err # "" /\ method = "Decode"
                     THEN "failed to decode" ELSE implOut.err]

\* A server-side handler: whether it calls the implementation, with which
\* observations (BuildReport), and the reply and error it returns when the
\* implementation returns implOut.
ServerHandler(method, request, implOut) ==
    IF method = "BuildReport" /\ ObserverError(request) # ""
    THEN [called |-> FALSE, args |-> <<>>, reply |-> NilReply,
          err |-> ObserverError(request)]
    ELSE [called |-> TRUE,
          args   |-> IF method = "BuildReport"
                     THEN ServerObservations(request) ELSE <<>>,
          reply  |-> IF implOut.err # "" THEN NilReply
                     ELSE HandlerReply(method, implOut.val),
          err    |-> implOut.err]

\* copy(configDigest[:], src) into a zero [32]byte.
CopyDigest(src) == [i \in 1..32 |-> IF i <= Len(src) THEN src[i] ELSE 0]

\* Mutant of MedianContractResult: the length of ConfigDigest is not
\* checked.
MedianContractResultUnchecked(method, reply, err) ==
    LET zero == [configDigest |-> Zeros(32), epoch |-> 0, round |-> 0,
                 latestAnswer |-> NilBig, latestTimestamp |-> 0, err |-> ""]
    IN  IF err # "" THEN [zero EXCEPT !.err = err]
        ELSE IF reply.Round > MaxUint8
        THEN [zero EXCEPT !.configDigest = CopyDigest(reply.ConfigDigest),
                          !.epoch = reply.Epoch,
                          !.err = "expected uint8 Round"]
        ELSE [configDigest    |-> CopyDigest(reply.ConfigDigest),
              epoch           |-> reply.Epoch,
              round           |-> Uint8(reply.Round),
              latestAnswer    |-> IF method = "LatestTransmissionDetails"
                                  THEN PbInt(reply.LatestAnswer) ELSE NilBig,
              latestTimestamp |-> IF method = "LatestTransmissionDetails"
                                  THEN reply.LatestTimestamp ELSE 0,
              err             |-> ""]

\* The named results with which medianContractClient.LatestTransmissionDetails
\* and LatestRoundRequested return (the latter has no latestAnswer and no
\* latestTimestamp: they stay zero here).
MedianContractResult(method, reply, err) ==
    LET zero == [configDigest |-> Zeros(32), epoch |-> 0, round |-> 0,
                 latestAnswer |-> NilBig, latestTimestamp |-> 0, err |-> ""]
    IN  IF err # "" THEN [zero EXCEPT !.err = err]
        ELSE IF Len(reply.ConfigDigest) # 32
        THEN [zero EXCEPT !.err = "expected ConfigDigest length 32"]
        ELSE IF reply.Round > MaxUint8
        THEN [zero EXCEPT !.configDigest = CopyDigest(reply.ConfigDigest),
                          !.epoch = reply.Epoch,
                          !.err = "expected uint8 Round"]
        ELSE [configDigest    |-> CopyDigest(reply.ConfigDigest),
              epoch           |-> reply.Epoch,
              round           |-> Uint8(reply.Round),
              latestAnswer    |-> IF method = "LatestTransmissionDetails"
                                  THEN PbInt(reply.LatestAnswer) ELSE NilBig,
              latestTimestamp |-> IF method = "LatestTransmissionDetails"
                                  THEN reply.LatestTimestamp ELSE 0,
              err             |-> ""]

\* What a client method returns for the reply and error of its RPC.
ClientResult(method, reply, err) ==
    CASE method = "BuildReport" ->
            [report |-> IF err # "" THEN <<>> ELSE reply.Report, err |-> err]
      [] method = "MedianFromReport" ->
            [median |-> IF err # "" THEN NilBig ELSE PbInt(reply.Median),
             err |-> err]
      [] method = "MaxReportLength" ->
            [max |-> IF err # "" THEN -1 ELSE reply.Max, err |-> err]
      [] method \in MedianContractMethods ->
            MedianContractResult(method, reply, err)
      [] method = "Encode" ->
            [encoded |-> IF err # "" THEN <<>> ELSE reply.Encoded, err |-> err]
      [] method = "Decode" ->
            [oc  |-> IF err # "" THEN ZeroOnchainConfig
                     ELSE OnchainConfig(PbInt(reply.Min), PbInt(reply.Max)),
             err |-> err]

\* The lists of observations a caller hands to reportCodecClient.BuildReport;
\* an Observer is a commontypes.OracleID, a uint8.
Observations ==
    LET obs == [Timestamp : {1, 2}, Value : {NewInt(-1), NewInt(300)},
                JuelsPerFeeCoin : {NewInt(7)}, Observer : {0, MaxUint8}]
    IN  UNION {[1..n -> obs] : n \in 0..MaxObs}

\* The requests a peer can send to reportCodecServer.BuildReport; on the
\* wire an Observer is a uint32.
PeerRequests ==
    LET obs == [Timestamp : {1, 2},
                Value : {PbBigInt(NewInt(-1)), PbBigInt(NewInt(300))},
                JulesPerFeeCoin : {PbBigInt(NewInt(7))},
                Observer : {0, MaxUint8, MaxUint8 + 1, 300}]
    IN  UNION {[1..n -> obs] : n \in 0..MaxObs}

\* The results with which the implementation behind a handler can return.
ImplOutcomes(method) ==
    LET vals ==
          CASE method = "BuildReport" -> {<<>>, <<1, 2>>}
            [] method = "MedianFromReport" -> {NewInt(-1), NewInt(300)}
            [] method = "MaxReportLength" -> {0, 64}
            [] method \in MedianContractMethods ->
                  [digest : {[i \in 1..32 |-> i], Zeros(32)}, epoch : {1},
                   round : {0, MaxUint8}, latestAnswer : {NewInt(300)},
                   latestTimestamp : {5}]
            [] method = "Encode" -> {<<1>> \o Zeros(95)}
            [] method = "Decode" -> {OnchainConfig(NewInt(-1), NewInt(300))}
    IN  {[val |-> v, err |-> ""] : v \in vals}
            \cup {[val |-> <<>>, err |-> "impl failed"]}

\* The replies a median contract client can receive from its peer.
PeerReplies ==
    [ConfigDigest : {[i \in 1..n |-> i] : n \in {31, 32, 33}}, Epoch : {1},
     Round : {0, MaxUint8, MaxUint8 + 1}, LatestAnswer : {PbBigInt(NewInt(300))},
     LatestTimestamp : {5}]

NoImpl == [val |-> <<>>, err |-> ""]

NoResult == [err |-> ""]

InitRpc ==
    [stage |-> "idle", origin |-> "", method |-> "", obs |-> <<>>,
     req |-> <<>>, called |-> FALSE, impl |-> NoImpl, args |-> <<>>,
     reply |-> NilReply, err |-> "", out |-> NoResult]

\* A client method is called and sends its request.
ClientCall(method, observations) ==
    /\ rpc.stage = "idle"
    /\ method # "BuildReport" => observations = <<>>
    /\ rpc' = [rpc EXCEPT !.stage = "request", !.origin = "client",
                          !.method = method, !.obs = observations,
                          !.req = IF method = "BuildReport"
                                  THEN BuildReportRequest(observations)
                                  ELSE <<>>]
    /\ UNCHANGED <<constructionVars, callVars, sink, lg, codec, svc, once, mon>>

\* A BuildReport request of a peer arrives at the server.
PeerRequest(request) ==
    /\ rpc.stage = "idle"
    /\ rpc' = [rpc EXCEPT !.stage = "request", !.origin = "peer",
                          !.method = "BuildReport", !.req = request]
    /\ UNCHANGED <<constructionVars, callVars, sink, lg, codec, svc, once, mon>>

\* The handler of the server for the method runs; the implementation
\* returns implOut when the handler calls it.
ServerHandle(method, implOut) ==
    /\ rpc.stage = "request"
    /\ rpc.method = method
    /\ LET h == ServerHandler(rpc.method, rpc.req, implOut)
       IN  rpc' = [rpc EXCEPT !.stage = "reply", !.called = h.called,
                              !.impl = IF h.called THEN implOut ELSE NoImpl,
                              !.args = h.args, !.reply = h.reply,
                              !.err = h.err]
    /\ UNCHANGED <<constructionVars, callVars, sink, lg, codec, svc, once, mon>>

\* The RPC of a median contract client ends with a reply of its peer, or
\* with an error.
PeerReply(reply, err) ==
    /\ rpc.stage = "request"
    /\ rpc.origin = "client"
    /\ rpc.method \in MedianContractMethods
    /\ rpc' = [rpc EXCEPT
          !.stage = "reply",
          !.reply = IF err # "" THEN NilReply
                    ELSE IF rpc.method = "LatestRoundRequested"
                    THEN [f \in {"ConfigDigest", "Epoch", "Round"} |-> reply[f]]
                    ELSE reply,
          !.err = err]
    /\ UNCHANGED <<constructionVars, callVars, sink, lg, codec, svc, once, mon>>

\* The client method returns.
ClientReturn ==
    /\ rpc.stage = "reply"
    /\ rpc.origin = "client"
    /\ rpc' = [rpc EXCEPT !.stage = "done",
                          !.out = ClientResult(rpc.method, rpc.reply, rpc.err)]
    /\ UNCHANGED <<constructionVars, callVars, sink, lg, codec, svc, once, mon>>

(***************************************************************************)
(* MedianService (pkg/loop/median_service.go) on top of the plugin         *)
(* lifecycle: NotStarted -> Starting -> Ready, and Stopped from any state  *)
(* when the stop channel is closed.                                        *)
(***************************************************************************)
\* Causes with which the launch of the subprocess fails before a value is
\* dispensed.
LaunchErrs == {"subprocess failed to start", "handshake timed out"}

\* Mutant of newService: the dispensed value is used without the type
\* assertion.
newServiceUnchecked(isPluginMedian, factoryErr) ==
    [called  |-> TRUE,
     factory |-> factoryErr = "",
     err     |-> factoryErr]

\* The newService closure of NewMedianService: whether it calls
\* plug.NewMedianFactory, whether it returns a factory, and its error, when
\* the dispensed instance is or is not a PluginMedian and NewMedianFactory
\* returns factoryErr.
newService(isPluginMedian, factoryErr) ==
    IF ~isPluginMedian
    THEN [called |-> FALSE, factory |-> FALSE, err |-> "expected PluginMedian"]
    ELSE [called  |-> TRUE,
          factory |-> factoryErr = "",
          err     |-> factoryErr]

\* utils.ContextFromChan(stopCh): whether the context is done.
ContextFromChan(s) == s.stopChClosed

\* pluginService.wait(ctx): the results with which it can return now.
wait(s, ctxDone) ==
    (IF s.state = "Ready" THEN {""} ELSE {})
        \cup (IF ctxDone THEN {"context canceled"} ELSE {})
        \cup (IF s.err # "" THEN {s.err} ELSE {})

\* Mutant of ForwardsAfterWait: the result of wait is ignored.
ForwardsAlways(waitErr) == TRUE

\* Whether NewReportingPlugin goes on to m.service.NewReportingPlugin after
\* wait returned waitErr.
ForwardsAfterWait(waitErr) == waitErr = ""

InitPluginCall ==
    [pc |-> "idle", afterStop |-> FALSE, waitErr |-> "", forwarded |-> FALSE,
     err |-> ""]

InitService ==
    [state |-> "NotStarted", stopChClosed |-> FALSE, dispensed |-> "",
     newServiceCalls |-> 0, factoryCalls |-> 0, factory |-> FALSE,
     err |-> "", calls |-> [i \in 1..NumPluginCalls |-> InitPluginCall]]

\* The service is started.
ServiceStart ==
    /\ svc.state = "NotStarted"
    /\ svc' = [svc EXCEPT !.state = "Starting"]
    /\ UNCHANGED <<constructionVars, callVars, sink, lg, codec, rpc, once, mon>>

\* The subprocess is launched: the launch fails with cause, or (cause "")
\* an instance is dispensed and handed to newService.
ServiceLaunch(cause, isPluginMedian, factoryErr) ==
    /\ svc.state = "Starting"
    /\ svc.err = ""
    /\ IF cause # ""
       THEN svc' = [svc EXCEPT !.err = cause]
       ELSE LET r == newService(isPluginMedian, factoryErr)
            IN  svc' = [svc EXCEPT
                  !.dispensed = IF isPluginMedian THEN "PluginMedian"
                                ELSE "other",
                  !.newServiceCalls = @ + 1,
                  !.factoryCalls = IF r.called THEN @ + 1 ELSE @,
                  !.factory = r.factory,
                  !.err = r.err,
                  !.state = IF r.err = "" THEN "Ready" ELSE @]
    /\ UNCHANGED <<constructionVars, callVars, sink, lg, codec, rpc, once, mon>>

\* The stop channel is closed.
ServiceStop ==
    /\ ~svc.stopChClosed
    /\ svc' = [svc EXCEPT !.stopChClosed = TRUE, !.state = "Stopped"]
    /\ UNCHANGED <<constructionVars, callVars, sink, lg, codec, rpc, once, mon>>

\* MedianService.NewReportingPlugin is called: it derives ctx from stopCh
\* and enters m.wait(ctx).
NewReportingPluginCall(i) ==
    /\ svc.calls[i].pc = "idle"
    /\ svc' = [svc EXCEPT !.calls[i].pc = "wait",
                          !.calls[i].afterStop = svc.stopChClosed]
    /\ UNCHANGED <<constructionVars, callVars, sink, lg, codec, rpc, once, mon>>

\* m.wait(ctx) returns waitErr: the call returns it, or goes on to forward.
NewReportingPluginWaited(i, waitErr) ==
    /\ svc.calls[i].pc = "wait"
    /\ waitErr \in wait(svc, ContextFromChan(svc))
    /\ svc' = [svc EXCEPT
          !.calls[i].waitErr = waitErr,
          !.calls[i].pc = IF ForwardsAfterWait(waitErr) THEN "forward"
                          ELSE "returned",
          !.calls[i].err = IF ForwardsAfterWait(waitErr) THEN "" ELSE waitErr]
    /\ UNCHANGED <<constructionVars, callVars, sink, lg, codec, rpc, once, mon>>

\* return m.service.NewReportingPlugin(config); err is the factory's error.
NewReportingPluginForward(i, err) ==
    /\ svc.calls[i].pc = "forward"
    /\ svc' = [svc EXCEPT !.calls[i].pc = "returned",
                          !.calls[i].forwarded = TRUE,
                          !.calls[i].err = err]
    /\ UNCHANGED <<constructionVars, callVars, sink, lg, codec, rpc, once, mon>>

(***************************************************************************)
(* onceValue(f): the goroutines calling the function it returns.  A panic  *)
(* value is a string, "" is nil; a result is a number, 0 is the zero T.    *)
(***************************************************************************)
\* Mutant of CallerResult: valid is not tested, result is returned.
CallerResultUnchecked(o) == [panicked |-> FALSE, val |-> o.result]

\* The end of the returned function, after once.Do(g): panic(p) when valid
\* is false, result otherwise.
CallerResult(o) ==
    IF ~o.valid THEN [panicked |-> TRUE, val |-> o.p]
    ELSE [panicked |-> FALSE, val |-> o.result]

InitOnce ==
    [done |-> FALSE, lock |-> 0, valid |-> FALSE, p |-> "", result |-> 0,
     fCalls |-> 0, fPanicked |-> FALSE, fVal |-> 0, fPanic |-> "",
     pc |-> [g \in 1..NumCallers |-> "idle"],
     out |-> [g \in 1..NumCallers |-> [panicked |-> FALSE, val |-> 0]]]

\* A goroutine calls the returned function and enters once.Do(g): with done
\* set Do returns at once, otherwise the goroutine goes for the mutex.
OnceDo(g) ==
    /\ once.pc[g] = "idle"
    /\ once' = [once EXCEPT !.pc[g] = IF once.done THEN "check" ELSE "lock"]
    /\ UNCHANGED <<constructionVars, callVars, sink, lg, codec, rpc, svc, mon>>

\* once.Do takes the mutex: with done set it unlocks and returns, otherwise
\* it calls g, which calls f.
OnceLock(g) ==
    /\ once.pc[g] = "lock"
    /\ once.lock = 0
    /\ IF once.done
       THEN once' = [once EXCEPT !.pc[g] = "check"]
       ELSE once' = [once EXCEPT !.lock = g, !.pc[g] = "f",
                                 !.fCalls = @ + 1]
    /\ UNCHANGED <<constructionVars, callVars, sink, lg, codec, rpc, svc, mon>>

\* f returns v: g stores it and sets valid, its deferred function recovers
\* nil into p, Do sets done and unlocks.
OnceFReturns(g, v) ==
    /\ once.pc[g] = "f"
    /\ once' = [once EXCEPT !.result = v, !.valid = TRUE, !.p = "",
                            !.fVal = v, !.done = TRUE, !.lock = 0,
                            !.pc[g] = "check"]
    /\ UNCHANGED <<constructionVars, callVars, sink, lg, codec, rpc, svc, mon>>

\* f panics with q: the deferred function of g recovers q into p and, valid
\* being false, panics with p again; Do sets done and unlocks on the way
\* out, and the panic reaches the caller.
OnceFPanics(g, q) ==
    /\ once.pc[g] = "f"
    /\ once' = [once EXCEPT !.p = q, !.fPanicked = TRUE, !.fPanic = q,
                            !.done = TRUE, !.lock = 0,
                            !.pc[g] = "panicked",
                            !.out[g] = [panicked |-> TRUE, val |-> q]]
    /\ UNCHANGED <<constructionVars, callVars, sink, lg, codec, rpc, svc, mon>>

\* After once.Do returned the goroutine tests valid and returns or panics.
OnceReturn(g) ==
    /\ once.pc[g] = "check"
    /\ once' = [once EXCEPT
          !.pc[g] = IF CallerResult(once).panicked THEN "panicked"
                    ELSE "returned",
          !.out[g] = CallerResult(once)]
    /\ UNCHANGED <<constructionVars, callVars, sink, lg, codec, rpc, svc, mon>>

(***************************************************************************)
(* Monitor.Run (src/unnamed/part_001): the routines it starts under a      *)
(* context derived from RootContext, and its return.                       *)
(***************************************************************************)
\* The routines that take rootCtx and run until it is done.
Workers == {"RDDPoller", "Manager", "HTTPServer"}

\* Mutant of Subprocesses: the HTTP server is started outside subs.
SubprocessesNoHTTP == {"RDDPoller", "Manager", "Signals"}

\* The routines Run starts with subs.Go, which subs.Wait waits for.
Subprocesses == Workers \cup {"Signals"}

InitMonitor ==
    [pc |-> "init", rootCancelled |-> FALSE, ctxDone |-> FALSE,
     notified |-> FALSE, osSignalsCh |-> <<>>, received |-> FALSE,
     routine |-> [r \in Workers \cup {"Signals"} |-> "none"]]

\* Run derives rootCtx from m.RootContext, starts the four routines and
\* reaches subs.Wait().
MonitorRun ==
    /\ mon.pc = "init"
    /\ mon' = [mon EXCEPT !.pc = "wait",
                          !.ctxDone = mon.rootCancelled,
                          !.routine = [r \in DOMAIN @ |-> "running"]]
    /\ UNCHANGED <<constructionVars, callVars, sink, lg, codec, rpc, svc, once>>

\* m.RootContext is cancelled; the cancellation reaches the derived context.
RootCancel ==
    /\ ~mon.rootCancelled
    /\ mon' = [mon EXCEPT !.rootCancelled = TRUE,
                          !.ctxDone = @ \/ mon.pc # "init"]
    /\ UNCHANGED <<constructionVars, callVars, sink, lg, codec, rpc, svc, once>>

\* The signal routine makes osSignalsCh and calls signal.Notify.
SignalsNotify ==
    /\ mon.routine["Signals"] = "running"
    /\ ~mon.notified
    /\ mon' = [mon EXCEPT !.notified = TRUE]
    /\ UNCHANGED <<constructionVars, callVars, sink, lg, codec, rpc, svc, once>>

\* The OS delivers SIGINT or SIGTERM into osSignalsCh (capacity 1).
OSSignal(sig) ==
    /\ mon.notified
    /\ mon.osSignalsCh = <<>>
    /\ mon' = [mon EXCEPT !.osSignalsCh = <<sig>>]
    /\ UNCHANGED <<constructionVars, callVars, sink, lg, codec, rpc, svc, once>>

\* case sig = <-osSignalsCh: the routine logs, calls cancel() and returns.
SignalsReceive ==
    /\ mon.routine["Signals"] = "running"
    /\ mon.notified
    /\ mon.osSignalsCh # <<>>
    /\ mon' = [mon EXCEPT !.osSignalsCh = <<>>, !.received = TRUE,
                          !.ctxDone = TRUE, !.routine["Signals"] = "returned"]
    /\ UNCHANGED <<constructionVars, callVars, sink, lg, codec, rpc, svc, once>>

\* case <-rootCtx.Done(): the routine returns.
SignalsDone ==
    /\ mon.routine["Signals"] = "running"
    /\ mon.notified
    /\ mon.ctxDone
    /\ mon' = [mon EXCEPT !.routine["Signals"] = "returned"]
    /\ UNCHANGED <<constructionVars, callVars, sink, lg, codec, rpc, svc, once>>

\* A worker returns because rootCtx is done.
WorkerReturn(r) ==
    /\ mon.routine[r] = "running"
    /\ mon.ctxDone
    /\ mon' = [mon EXCEPT !.routine[r] = "returned"]
    /\ UNCHANGED <<constructionVars, callVars, sink, lg, codec, rpc, svc, once>>

\* A worker returns on its own while rootCtx is not done.
WorkerFails(r) ==
    /\ mon.routine[r] = "running"
    /\ ~mon.ctxDone
    /\ mon' = [mon EXCEPT !.routine[r] = "returned"]
    /\ UNCHANGED <<constructionVars, callVars, sink, lg, codec, rpc, svc, once>>

\* subs.Wait() returns, the deferred cancel() runs and Run returns.
MonitorReturn ==
    /\ mon.pc = "wait"
    /\ \A r \in Subprocesses : mon.routine[r] = "returned"
    /\ mon' = [mon EXCEPT !.pc = "returned", !.ctxDone = TRUE]
    /\ UNCHANGED <<constructionVars, callVars, sink, lg, codec, rpc, svc, once>>

(***************************************************************************)
(* The built-in logger (pkg/logger/logger.go).  A string is its sequence   *)
(* of characters, <<>> is "".  The zap.SugaredLogger inside a logger is    *)
(* its name, the number of With calls behind it and its caller skip.       *)
(***************************************************************************)
\* &logger{sugared, ""}: the logger New, Test and Nop return.
NewLogger ==
    [sugared |-> [name |-> <<>>, withs |-> 0, skip |-> 0], name |-> <<>>]

\* joinName(old, new).
joinName(old, new) == IF old = <<>> THEN new ELSE old \o <<".">> \o new

\* zap's SugaredLogger.Named(name): an empty name changes nothing.
SugaredNamed(z, name) ==
    IF name = <<>> THEN z ELSE [z EXCEPT !.name = joinName(@, name)]

\* (*logger).named(name).
named(l, name) ==
    [sugared |-> SugaredNamed(l.sugared, name), name |-> joinName(l.name, name)]

\* (*logger).with(args...): &logger{l.SugaredLogger.With(args...), ""}.
with(l) == [sugared |-> [l.sugared EXCEPT !.withs = @ + 1], name |-> <<>>]

\* (*logger).helper(skip): &logger{l.sugaredHelper(skip), l.name}.
helper(l, skip) ==
    [sugared |-> [l.sugared EXCEPT !.skip = @ + skip], name |-> l.name]

\* (*logger).Name().
Name(l) == l.name

InitLogger ==
    [l |-> NewLogger, prev |-> NewLogger, op |-> "New", n |-> <<>>, ops |-> 0]

\* logger.Named(l, n) on the current logger.
LoggerNamed(n) ==
    /\ lg.ops < MaxOps
    /\ lg' = [l |-> named(lg.l, n), prev |-> lg.l, op |-> "Named", n |-> n,
              ops |-> lg.ops + 1]
    /\ UNCHANGED <<constructionVars, callVars, sink, codec, rpc, svc, once, mon>>

\* logger.With(l, keyvals...) on the current logger.
LoggerWith ==
    /\ lg.ops < MaxOps
    /\ lg' = [l |-> with(lg.l), prev |-> lg.l, op |-> "With", n |-> <<>>,
              ops |-> lg.ops + 1]
    /\ UNCHANGED <<constructionVars, callVars, sink, codec, rpc, svc, once, mon>>

\* logger.Helper(l, skip) on the current logger.
LoggerHelper(skip) ==
    /\ lg.ops < MaxOps
    /\ lg' = [l |-> helper(lg.l, skip), prev |-> lg.l, op |-> "Helper",
              n |-> <<>>, ops |-> lg.ops + 1]
    /\ UNCHANGED <<constructionVars, callVars, sink, codec, rpc, svc, once, mon>>

(***************************************************************************)
(* hclSinkAdapter: goroutines calling Accept on one adapter.  Every call   *)
(* of named makes a onceValue function of its own, known here by the       *)
(* goroutine that made it; a logger instance is known by the position of   *)
(* the logger.Named call that made it.                                     *)
(***************************************************************************)
\* Mutant of LoadOrStore: the function just made is stored over the one the
\* map holds, and used.
LoadOrStoreOwn(m, name, g) == g

\* h.m.LoadOrStore(name, onceVal): the function the call gets back, which
\* is the stored one when the map holds one for the name.
LoadOrStore(m, name, g) == IF m[name] = 0 THEN g ELSE m[name]

InitSink ==
    [l        |-> NewLogger,
     m        |-> [name \in {<<"a">>, <<"b">>} |-> 0],
     onceVal  |-> [g \in 1..NumAcceptors |->
                     [done |-> FALSE, lock |-> 0, valid |-> FALSE, p |-> "",
                      result |-> 0]],
     namedCalls |-> <<>>,
     pc       |-> [g \in 1..NumAcceptors |-> "idle"],
     name     |-> [g \in 1..NumAcceptors |-> <<>>],
     level    |-> [g \in 1..NumAcceptors |-> "NoLevel"],
     fn       |-> [g \in 1..NumAcceptors |-> 0],
     logger   |-> [g \in 1..NumAcceptors |-> 0],
     logs     |-> {}]

\* Accept(name, level, msg) is called and named(name) makes its onceValue
\* function.
SinkAccept(g, name, level) ==
    /\ sink.pc[g] = "idle"
    /\ sink' = [sink EXCEPT !.pc[g] = "loadOrStore", !.name[g] = name,
                            !.level[g] = level]
    /\ UNCHANGED <<constructionVars, callVars, lg, codec, rpc, svc, once, mon>>

\* v, _ := h.m.LoadOrStore(name, onceVal).
SinkLoadOrStore(g) ==
    /\ sink.pc[g] = "loadOrStore"
    /\ LET fn == LoadOrStore(sink.m, sink.name[g], g)
       IN  sink' = [sink EXCEPT !.m[sink.name[g]] = fn, !.fn[g] = fn,
                                !.pc[g] = "do"]
    /\ UNCHANGED <<constructionVars, callVars, lg, codec, rpc, svc, once, mon>>

\* The function is called and enters once.Do(g).
SinkOnceDo(g) ==
    /\ sink.pc[g] = "do"
    /\ sink' = [sink EXCEPT
          !.pc[g] = IF sink.onceVal[sink.fn[g]].done THEN "check" ELSE "lock"]
    /\ UNCHANGED <<constructionVars, callVars, lg, codec, rpc, svc, once, mon>>

\* once.Do takes the mutex of the function: with done set it returns,
\* otherwise it calls f.
SinkOnceLock(g) ==
    /\ sink.pc[g] = "lock"
    /\ sink.onceVal[sink.fn[g]].lock = 0
    /\ IF sink.onceVal[sink.fn[g]].done
       THEN sink' = [sink EXCEPT !.pc[g] = "check"]
       ELSE sink' = [sink EXCEPT !.onceVal[sink.fn[g]].lock = g,
                                 !.pc[g] = "f"]
    /\ UNCHANGED <<constructionVars, callVars, lg, codec, rpc, svc, once, mon>>

\* f returns logger.Named(h.l, name), name being that of the call which made
\* the function; the result is stored, valid and done are set, the mutex is
\* released.
SinkNamed(g) ==
    /\ sink.pc[g] = "f"
    /\ LET fn == sink.fn[g]
           nl == [name |-> sink.name[fn], by |-> fn,
                  logger |-> named(sink.l, sink.name[fn])]
       IN  sink' = [sink EXCEPT
              !.namedCalls = Append(@, nl),
              !.onceVal[fn] = [done |-> TRUE, lock |-> 0, valid |-> TRUE,
                               p |-> "", result |-> Len(sink.namedCalls) + 1],
              !.pc[g] = "check"]
    /\ UNCHANGED <<constructionVars, callVars, lg, codec, rpc, svc, once, mon>>

\* The function returns its result to named, and Accept logs through it at
\* the level given (nothing at NoLevel).
SinkLog(g) ==
    /\ sink.pc[g] = "check"
    /\ LET r == CallerResult(sink.onceVal[sink.fn[g]])
       IN  sink' = [sink EXCEPT
              !.pc[g] = IF r.panicked THEN "panicked" ELSE "done",
              !.logger[g] = IF r.panicked THEN 0 ELSE r.val,
              !.logs = IF r.panicked \/ sink.level[g] = "NoLevel" THEN @
                       ELSE @ \cup {[g |-> g, name |-> sink.name[g],
                                     level |-> sink.level[g],
                                     logger |-> r.val]}]
    /\ UNCHANGED <<constructionVars, callVars, lg, codec, rpc, svc, once, mon>>

(***************************************************************************)
(* The construction specification.                                         *)
(***************************************************************************)
InitConstruction(cs) ==
    /\ brokerNext = [side \in {"host", "plugin"} |-> 1]
    /\ open = {}
    /\ closeLog = [c \in cs |-> <<>>]
    /\ hostServed = {}
    /\ registry = {}
    /\ client = [c \in cs |-> InitClient]
    /\ server = [c \in cs |-> InitServer]

InitCalls ==
    /\ stopped = FALSE
    /\ calls = [i \in Calls |-> InitCall]

InitOther ==
    /\ codec = InitCodec
    /\ rpc = InitRpc
    /\ svc = InitService
    /\ once = InitOnce
    /\ mon = InitMonitor
    /\ sink = InitSink
    /\ lg = InitLogger

Init == InitConstruction(Constructions) /\ InitCalls /\ InitOther

Next ==
    \/ \E c \in DOMAIN client, g \in BOOLEAN : NewMedianFactoryCall(c, g)
    \/ \E c \in DOMAIN client, ok \in BOOLEAN : ClientRegister(c, ok)
    \/ \E c \in DOMAIN client : ClientRequest(c)
    \/ \E c \in DOMAIN client, cause \in DialErrs \cup {""} : ServerDial(c, cause)
    \/ \E c \in DOMAIN client, ok \in BOOLEAN : ServerImpl(c, ok)
    \/ \E c \in DOMAIN client, ok \in BOOLEAN : ServerServeNew(c, ok)
    \/ \E c \in DOMAIN client : ClientReply(c)
    \/ \E c \in DOMAIN client : NewClientConnSettle(c)

Spec == Init /\ [][Next]_vars

(***************************************************************************)
(* The specification of concurrent constructions: the same steps, taken by *)
(* several constructions on one broker in any interleaving.                *)
(***************************************************************************)
ConcInit == InitConstruction(ConcurrentConstructions) /\ InitCalls /\ InitOther

ConcSpec == ConcInit /\ [][Next]_vars

(***************************************************************************)
(* The specification of the sub-service calls.  A call whose context is    *)
(* done returns: gRPC does not leave it blocked.                           *)
(***************************************************************************)
CallNext ==
    \/ \E i \in Calls, m \in Methods, d \in BOOLEAN : CallStart(i, m, d)
    \/ \E i \in Calls : CallReply(i)
    \/ \E i \in Calls : CallCancelled(i)
    \/ \E i \in Calls : CallerCancel(i)
    \/ Stop

CallSpec ==
    Init /\ [][CallNext]_vars /\ \A i \in Calls : WF_vars(CallCancelled(i))

(***************************************************************************)
(* Properties of the plugin-side handler.                                  *)
(***************************************************************************)
Returned(s) == s.pc \in {"returned", "delivered"}

\* The handler of construction c returned because its k-th dial failed.
DialFailedAt(c, k) ==
    /\ Returned(server[c])
    /\ server[c].dialErr # ""
    /\ Len(server[c].dials) = k

\* The request's ID for the dependency called name.
RequestID(req, name) ==
    CASE name = "DataSource"                -> req.DataSourceID
      [] name = "JuelsPerFeeCoinDataSource" -> req.JuelsPerFeeCoinDataSourceID
      [] name = "MedianProvider"            -> req.MedianProviderID
      [] name = "ErrorLog"                  -> req.ErrorLogID

\* The connection the handler of c holds for dependency i once dialed.
DepConn(c, i) == Conn(DepNames[i], RequestID(server[c].req, DepNames[i]), c)

\* The plugin-side Resources construction c closed, in order.
PluginCloses(c) == SelectSeq(closeLog[c], LAMBDA r : r.side = "plugin")

\* The dialed connections of construction c that are open.
OpenConns(c) ==
    {r \in open : r.side = "plugin" /\ r.owner = c /\ r.name \in Range(DepNames)}

\* The composites registered for construction c.
Composites(c) == {e \in registry : e.owner = c}

\* C1: the handler dials DataSource, JuelsPerFeeCoinDataSource,
\* MedianProvider, ErrorLog in that order; when the dial of dependency k
\* fails, exactly the connections of dependencies 1..k-1 are closed, no later
\* dependency is dialed, the implementation is not invoked and no dialed
\* connection is open when the handler returns.
C1_DialFailureRollsBack ==
    \A c \in DOMAIN client :
        /\ \A i \in 1..Len(server[c].dials) :
               server[c].dials[i] = RequestID(server[c].req, DepNames[i])
        /\ \A k \in 1..4 :
               DialFailedAt(c, k) =>
                   /\ Range(PluginCloses(c)) = {DepConn(c, i) : i \in 1..(k - 1)}
                   /\ Len(PluginCloses(c)) = k - 1
                   /\ \A i \in k..4 : server[c].res[DepNames[i]] = NoRes
                   /\ ~server[c].implCalled
                   /\ OpenConns(c) = {}

C1_Witness ==
    /\ DialFailedAt(1, 4)
    /\ Len(PluginCloses(1)) = 3
    /\ server[1].dialErr = "refused"

C3_ClientFailureClosesDeps ==
    \A c \in DOMAIN client :
        client[c].pc = "failed" =>
            \A r \in open : ~(r.side = "host" /\ r.owner = c)

\* C4: a failed dial returns an ErrConnDial whose Name is that of the step
\* that failed, whose ID is the request's ID of that dependency and whose Err
\* is the dial's error.
C4_DialErrorNamesFailedStep ==
    \A c \in DOMAIN client :
        \A k \in 1..4 :
            DialFailedAt(c, k) =>
                /\ server[c].err.kind = "ErrConnDial"
                /\ server[c].err.Name = DepNames[k]
                /\ server[c].err.ID = RequestID(server[c].req, DepNames[k])
                /\ server[c].err.ID = client[c].ids[DepNames[k]]
                /\ server[c].err.Err = server[c].dialErr
                /\ server[c].err.Err \in DialErrs

C4_Witness ==
    /\ DialFailedAt(1, 3)
    /\ server[1].err.Name = "MedianProvider"
    /\ server[1].err.ID = server[1].req.MedianProviderID
    /\ server[1].err.ID # server[1].req.DataSourceID
    /\ server[1].err.Err = "unknown id"

\* C5: when the four dials succeed and the implementation fails, the four
\* connections are closed before the handler returns, no composite is
\* registered and the implementation's error is returned.
C5_ImplFailureClosesAll ==
    \A c \in DOMAIN client :
        (Returned(server[c]) /\ server[c].implErr # NoErr) =>
            /\ Range(PluginCloses(c)) = {DepConn(c, i) : i \in 1..4}
            /\ OpenConns(c) = {}
            /\ Composites(c) = {}
            /\ server[c].registered = 0
            /\ server[c].err = server[c].implErr

C5_Witness ==
    /\ Returned(server[1])
    /\ server[1].implErr # NoErr
    /\ Len(server[1].dials) = 4
    /\ Len(PluginCloses(1)) = 4

\* C6: when the four dials and the implementation succeed and the composite
\* is registered, exactly one composite is registered, with the four
\* connections as its dependents, none of them closed, and the reply carries
\* the ID of that registration.
C6_SuccessRegistersComposite ==
    \A c \in DOMAIN client :
        (Returned(server[c]) /\ server[c].err = NoErr) =>
            /\ server[c].registered = 1
            /\ Cardinality(Composites(c)) = 1
            /\ \A e \in Composites(c) :
                   /\ e.deps = [i \in 1..4 |-> DepConn(c, i)]
                   /\ e.id = server[c].reply.ReportingPluginFactoryID
            /\ OpenConns(c) = {DepConn(c, i) : i \in 1..4}
            /\ PluginCloses(c) = <<>>

C6_Witness ==
    /\ Returned(server[1])
    /\ server[1].err = NoErr
    /\ server[1].reply.ReportingPluginFactoryID = 1
    /\ Cardinality(OpenConns(1)) = 4

Served(c, name) == {e \in hostServed : e.owner = c /\ e.name = name}

\* Construction c has issued its composite request.
Requested(c) == server[c].pc # "idle"

\* C8: the provider is registered by exactly one of two variants, chosen by
\* whether it implements GRPCClientConn alone: serve (a proxy of the live
\* connection, no serveNew) if it does, serveNew otherwise; the ID obtained
\* is sent as MedianProviderID, and the other dependencies are registered
\* with serveNew and sent in their own fields in both variants.
C8_ProviderVariant ==
    \A c \in DOMAIN client :
        /\ Cardinality(Served(c, "MedianProvider")) <= 1
        /\ \A e \in Served(c, "MedianProvider") :
               /\ e.via = IF client[c].grpcProvider THEN "serve" ELSE "serveNew"
               /\ Requested(c) => server[c].req.MedianProviderID = e.id
        /\ \A n \in Range(DepNames) \ {"MedianProvider"} :
               /\ Cardinality(Served(c, n)) <= 1
               /\ \A e \in Served(c, n) :
                      /\ e.via = "serveNew"
                      /\ Requested(c) => RequestID(server[c].req, n) = e.id
        /\ Requested(c) =>
               \A n \in Range(DepNames) : Cardinality(Served(c, n)) = 1

C8_Witness ==
    /\ Requested(1)
    /\ client[1].grpcProvider
    /\ \E e \in Served(1, "MedianProvider") :
           e.via = "serve" /\ e.id = server[1].req.MedianProviderID
    /\ \E e \in Served(1, "ErrorLog") : e.via = "serveNew"

(***************************************************************************)
(* Properties of concurrent constructions.                                 *)
(***************************************************************************)
\* The Resources construction c acquired: its host-side registrations and
\* the connections its handler dialed.
Acquired(c) ==
    (Range(client[c].deps) \cup {server[c].res[n] : n \in Range(DepNames)})
        \ {NoRes}

\* C10: with constructions interleaved in any way, the ServiceIDs a broker
\* handed out are pairwise distinct, and a construction closes and owns only
\* Resources it acquired itself: a rollback never closes another's Resource.
C10_ConstructionsIsolated ==
    /\ \A e1, e2 \in hostServed : e1.id = e2.id => e1 = e2
    /\ \A e1, e2 \in registry : e1.id = e2.id => e1 = e2
    /\ \A r1, r2 \in open :
           (r1.side = r2.side /\ r1.id = r2.id /\ r1.name = r2.name) => r1 = r2
    /\ \A c \in DOMAIN client :
           /\ Range(closeLog[c]) \subseteq Acquired(c)
           /\ \A r \in Range(closeLog[c]) : r.owner = c
           /\ \A e \in Composites(c) : Range(e.deps) \subseteq Acquired(c)
           /\ \A d \in DOMAIN client \ {c} :
                  /\ Acquired(c) \cap Acquired(d) = {}
                  /\ \A r \in Acquired(d) :
                         r \notin open => r \in Range(closeLog[d])

C10_Witness ==
    /\ client[1].ids["DataSource"] = 1
    /\ client[2].ids["DataSource"] = 2
    /\ client[1].ids["JuelsPerFeeCoinDataSource"] = 3
    /\ DialFailedAt(1, 4)
    /\ server[2].pc = "ErrorLog"
    /\ Cardinality(OpenConns(2)) = 3

(***************************************************************************)
(* Properties of the sub-service calls.                                    *)
(***************************************************************************)
\* After StopCh is closed, the calls of the given methods issue no new round
\* trip and none of them completes with a reply.
NoServiceAfterStop(methods) ==
    \A i \in Calls :
        (stopped /\ calls'[i].method \in methods) =>
            /\ calls'[i].trips = calls[i].trips
            /\ calls'[i].state = "ok" => calls[i].state = "ok"

\* Once StopCh is closed, the calls of the given methods in flight end failed.
CancelledOnStop(methods) ==
    \A i \in Calls :
        (stopped /\ calls[i].state = "inflight" /\ calls[i].method \in methods)
            ~> (calls[i].state = "failed")

\* C9 as claimed: once StopCh is closed, every call in flight is cancelled
\* and every later call fails without a round trip, for the report codec, the
\* on-chain config codec and the median contract clients alike.
C9_StopCancelsAllClients == [][NoServiceAfterStop(Methods)]_vars

\* C9 as amended: once StopCh is closed, every call in flight of the report
\* codec and on-chain config codec clients is cancelled and every later call
\* of theirs fails without a round trip; a median contract call is bound by
\* the ctx of its caller only.
C9_StopCancelsCodecClients ==
    /\ [][NoServiceAfterStop(ReportCodecMethods \cup OnchainConfigCodecMethods)]_vars
    /\ CancelledOnStop(ReportCodecMethods \cup OnchainConfigCodecMethods)

C9_Witness ==
    /\ stopped
    /\ calls[1].method = "BuildReport"
    /\ calls[1].state = "failed"
    /\ calls[1].trips = 1
    /\ calls[2].method = "Decode"
    /\ calls[2].state = "failed"
    /\ calls[2].trips = 0

(***************************************************************************)
(* The specification of StandardOnchainConfigCodec.                        *)
(***************************************************************************)
CodecNext ==
    \/ \E c \in CodecConfigs : EncodeCall(c)
    \/ \E b \in CodecBuffers : DecodeCall(b)
    \/ DecodeEncoded

CodecSpec == Init /\ [][CodecNext]_vars

(***************************************************************************)
(* Properties of StandardOnchainConfigCodec.                               *)
(***************************************************************************)
\* x is within the range of a 32-byte signed word.
InInt256(x) == Cmp(MinInt256, x) <= 0 /\ Cmp(x, MaxInt256) <= 0

\* The value a 32-byte word stands for.
WordValue(w) == DeserializeSigned(32, w).val

\* C11: for every Min <= Max within the 32-byte signed range Encode succeeds
\* and returns exactly 96 bytes, and Decode of those bytes succeeds and
\* returns the same {Min, Max}.
C11_RoundTrip ==
    (/\ codec.op \in {"Encode", "EncodeDecode"}
     /\ InInt256(codec.cfg.Min)
     /\ InInt256(codec.cfg.Max)
     /\ Cmp(codec.cfg.Min, codec.cfg.Max) <= 0) =>
        /\ codec.enc.err = ""
        /\ Len(codec.enc.bytes) = 96
        /\ codec.op = "EncodeDecode" =>
               /\ codec.dec.err = ""
               /\ codec.dec.cfg = codec.cfg

C11_Witness ==
    /\ codec.op = "EncodeDecode"
    /\ codec.cfg = OnchainConfig(MinInt256, MaxInt256)
    /\ codec.dec.cfg = codec.cfg
    /\ Len(codec.buf) = 96

\* C12: Decode fails and returns the zero OnchainConfig for every buffer
\* whose length is not 96, for every 96-byte buffer whose version word is not
\* 1 and for every 96-byte buffer of version 1 whose Min is greater than its
\* Max; it succeeds only when the three checks pass.
C12_DecodeRejects ==
    codec.op = "Decode" =>
        LET b       == codec.buf
            lenOK   == Len(b) = 96
            verOK   == WordValue(SubSeq(b, 1, 32)) = NewInt(1)
            orderOK == Cmp(WordValue(SubSeq(b, 33, 64)),
                           WordValue(SubSeq(b, 65, 96))) <= 0
        IN  /\ ~lenOK => codec.dec.err # "" /\ codec.dec.cfg = ZeroOnchainConfig
            /\ (lenOK /\ ~verOK) =>
                   codec.dec.err # "" /\ codec.dec.cfg = ZeroOnchainConfig
            /\ (lenOK /\ verOK /\ ~orderOK) =>
                   codec.dec.err # "" /\ codec.dec.cfg = ZeroOnchainConfig
            /\ codec.dec.err = "" => (lenOK /\ verOK /\ orderOK)
            /\ (lenOK /\ verOK /\ orderOK) =>
                   /\ codec.dec.err = ""
                   /\ codec.dec.cfg = OnchainConfig(WordValue(SubSeq(b, 33, 64)),
                                                    WordValue(SubSeq(b, 65, 96)))

C12_Witness ==
    /\ codec.op = "Decode"
    /\ Len(codec.buf) = 96
    /\ WordValue(SubSeq(codec.buf, 1, 32)) = NewInt(1)
    /\ WordValue(SubSeq(codec.buf, 33, 64)) = NewInt(300)
    /\ WordValue(SubSeq(codec.buf, 65, 96)) = NewInt(100)
    /\ codec.dec.err = "min greater than max"
    /\ codec.dec.cfg = ZeroOnchainConfig

(***************************************************************************)
(* The specification of one exchange with a sub-service.                   *)
(***************************************************************************)
RpcNext ==
    \/ \E method \in Methods, o \in Observations : ClientCall(method, o)
    \/ \E request \in PeerRequests : PeerRequest(request)
    \/ \E method \in Methods : \E implOut \in ImplOutcomes(method) :
          ServerHandle(method, implOut)
    \/ \E reply \in PeerReplies, err \in {"", "unavailable"} :
          PeerReply(reply, err)
    \/ ClientReturn

RpcSpec == Init /\ [][RpcNext]_vars

(***************************************************************************)
(* Properties of the sub-service handlers and clients.                     *)
(***************************************************************************)
\* C13: reportCodecServer.BuildReport rejects a request with an observation
\* whose Observer is above 255 with an error and no reply, without calling
\* the implementation; a request whose observers are all in 0..255 is never
\* rejected by that check.
C13_ObserverAbove255Rejected ==
    (rpc.method = "BuildReport" /\ rpc.stage \in {"reply", "done"}) =>
        IF \E i \in 1..Len(rpc.req) : rpc.req[i].Observer > 255
        THEN /\ rpc.err # ""
             /\ rpc.reply = NilReply
             /\ ~rpc.called
        ELSE /\ rpc.called
             /\ rpc.err = rpc.impl.err

C13_Witness ==
    /\ rpc.method = "BuildReport"
    /\ rpc.stage = "reply"
    /\ Len(rpc.req) = 2
    /\ rpc.req[1].Observer = 255
    /\ rpc.req[2].Observer = 256
    /\ rpc.err = "expected uint8 Observer"
    /\ ~rpc.called

\* C14: given a successful RPC, medianContractClient.LatestTransmissionDetails
\* and LatestRoundRequested fail when the ConfigDigest of the reply is not 32
\* bytes long or its Round is above 255, and otherwise succeed and return
\* the digest bytes and the round of the reply unchanged.
C14_DigestAndRoundValidated ==
    (/\ rpc.method \in MedianContractMethods
     /\ rpc.stage = "done"
     /\ rpc.err = "") =>
        IF Len(rpc.reply.ConfigDigest) # 32 \/ rpc.reply.Round > 255
        THEN rpc.out.err # ""
        ELSE /\ rpc.out.err = ""
             /\ rpc.out.configDigest = rpc.reply.ConfigDigest
             /\ rpc.out.round = rpc.reply.Round
             /\ rpc.out.epoch = rpc.reply.Epoch

C14_Witness ==
    /\ rpc.method = "LatestRoundRequested"
    /\ rpc.stage = "done"
    /\ rpc.err = ""
    /\ Len(rpc.reply.ConfigDigest) = 33
    /\ rpc.reply.Round = 255
    /\ rpc.out.err = "expected ConfigDigest length 32"

C18_BuildReportEndToEnd ==
    (/\ rpc.method = "BuildReport"
     /\ rpc.origin = "client"
     /\ rpc.stage \in {"reply", "done"}
     /\ rpc.called) =>
        /\ Len(rpc.args) = Len(rpc.obs)
        /\ \A i \in 1..Len(rpc.obs) : rpc.args[i] = rpc.obs[i]
        /\ (rpc.stage = "done" /\ rpc.impl.err = "") =>
               /\ rpc.out.err = ""
               /\ rpc.out.report = rpc.impl.val

C18_Witness ==
    /\ rpc.method = "BuildReport"
    /\ rpc.origin = "client"
    /\ rpc.stage = "done"
    /\ Len(rpc.obs) = 2
    /\ rpc.obs[1] # rpc.obs[2]
    /\ rpc.obs[1].Value = NewInt(-1)
    /\ rpc.args = rpc.obs
    /\ rpc.out.report = <<1, 2>>

(***************************************************************************)
(* The specification of MedianService.                                     *)
(***************************************************************************)
ServiceNext ==
    \/ ServiceStart
    \/ \E cause \in LaunchErrs \cup {""}, isPluginMedian \in BOOLEAN,
          factoryErr \in {"", "impl failed"} :
          ServiceLaunch(cause, isPluginMedian, factoryErr)
    \/ ServiceStop
    \/ \E i \in 1..NumPluginCalls : NewReportingPluginCall(i)
    \/ \E i \in 1..NumPluginCalls,
          waitErr \in LaunchErrs
              \cup {"", "context canceled", "expected PluginMedian",
                    "impl failed"} :
          NewReportingPluginWaited(i, waitErr)
    \/ \E i \in 1..NumPluginCalls, err \in {"", "plugin failed"} :
          NewReportingPluginForward(i, err)

ServiceSpec == Init /\ [][ServiceNext]_vars

(***************************************************************************)
(* Properties of MedianService.                                            *)
(***************************************************************************)
\* C15: NewReportingPlugin forwards to the underlying factory only after
\* wait(ctx) returned without error; when wait returns an error the call
\* returns that error and the factory is not called; a call made once the
\* stop channel is closed is never forwarded and returns an error.
C15_ForwardsOnlyAfterWait ==
    \A i \in 1..NumPluginCalls :
        LET c == svc.calls[i]
        IN  /\ (c.forwarded \/ c.pc = "forward") =>
                   (c.waitErr = "" /\ svc.factory)
            /\ (c.pc = "returned" /\ c.waitErr # "") =>
                   (c.err = c.waitErr /\ ~c.forwarded)
            /\ c.afterStop => (~c.forwarded /\ c.pc # "forward")
            /\ (c.afterStop /\ c.pc = "returned") => c.err # ""

C15_Witness ==
    /\ svc.calls[1].pc = "returned"
    /\ svc.calls[1].forwarded
    /\ ~svc.calls[1].afterStop
    /\ svc.calls[2].pc = "returned"
    /\ svc.calls[2].afterStop
    /\ svc.calls[2].err = "context canceled"
    /\ ~svc.calls[2].forwarded

\* C16: when the dispensed value does not satisfy PluginMedian, newService
\* returns an error, NewMedianFactory is not called and the service never
\* becomes Ready with a factory.
C16_TypeMismatchRejected ==
    svc.dispensed = "other" =>
        /\ svc.err # ""
        /\ svc.factoryCalls = 0
        /\ ~svc.factory
        /\ svc.state # "Ready"
        /\ \A i \in 1..NumPluginCalls : ~svc.calls[i].forwarded

C16_Witness ==
    /\ svc.dispensed = "other"
    /\ svc.newServiceCalls = 1
    /\ svc.err = "expected PluginMedian"
    /\ svc.calls[1].pc = "returned"
    /\ svc.calls[1].err = "expected PluginMedian"

(***************************************************************************)
(* The specification of onceValue.                                         *)
(***************************************************************************)
OnceNext ==
    \/ \E g \in 1..NumCallers : OnceDo(g)
    \/ \E g \in 1..NumCallers : OnceLock(g)
    \/ \E g \in 1..NumCallers, v \in {1, 2} : OnceFReturns(g, v)
    \/ \E g \in 1..NumCallers, q \in {"boom", "bang"} : OnceFPanics(g, q)
    \/ \E g \in 1..NumCallers : OnceReturn(g)

OnceSpec == Init /\ [][OnceNext]_vars

(***************************************************************************)
(* Properties of onceValue.                                                *)
(***************************************************************************)
\* C19: over all concurrent calls of the function onceValue(f) returns, f is
\* invoked at most once, every call that returns yields the value f
\* returned, and when f panics every call, the first and the later ones,
\* panics with the value f panicked with.
C19_OnceValue ==
    /\ once.fCalls <= 1
    /\ \A g \in 1..NumCallers :
          /\ once.pc[g] = "returned" =>
                 /\ once.fCalls = 1
                 /\ ~once.fPanicked
                 /\ once.out[g] = [panicked |-> FALSE, val |-> once.fVal]
          /\ (once.fPanicked /\ once.pc[g] \in {"returned", "panicked"}) =>
                 once.out[g] = [panicked |-> TRUE, val |-> once.fPanic]
          /\ once.pc[g] = "panicked" => once.fPanicked

C19_Witness ==
    /\ once.fPanicked
    /\ once.fPanic = "bang"
    /\ \A g \in 1..NumCallers :
          once.pc[g] = "panicked" /\ once.out[g].val = "bang"

(***************************************************************************)
(* The specification of Monitor.Run.  Every goroutine that can take a step *)
(* eventually takes it; RootContext, the OS and a worker failing on its    *)
(* own are under no obligation.                                            *)
(***************************************************************************)
MonitorNext ==
    \/ MonitorRun
    \/ RootCancel
    \/ SignalsNotify
    \/ \E sig \in {"SIGINT", "SIGTERM"} : OSSignal(sig)
    \/ SignalsReceive
    \/ SignalsDone
    \/ \E r \in Workers : WorkerReturn(r)
    \/ \E r \in Workers : WorkerFails(r)
    \/ MonitorReturn

MonitorSpec ==
    /\ Init
    /\ [][MonitorNext]_vars
    /\ WF_vars(SignalsNotify)
    /\ WF_vars(SignalsReceive)
    /\ WF_vars(SignalsDone)
    /\ \A r \in Workers : WF_vars(WorkerReturn(r))
    /\ WF_vars(MonitorReturn)

(***************************************************************************)
(* Properties of Monitor.Run.                                              *)
(***************************************************************************)
\* C20: Run returns only after the RDD poller, the manager, the HTTP server
\* and the signal routine have all returned; and once RootContext is
\* cancelled or a SIGINT/SIGTERM is received while Run is waiting, the
\* derived context is cancelled and Run eventually returns.
C20_RunReturnsAfterCancel ==
    /\ [](mon.pc = "returned" =>
            \A r \in {"RDDPoller", "Manager", "HTTPServer", "Signals"} :
                mon.routine[r] = "returned")
    /\ [](mon.received => mon.ctxDone)
    /\ ((mon.pc = "wait" /\ (mon.rootCancelled \/ mon.osSignalsCh # <<>>))
            ~> (mon.ctxDone /\ mon.pc = "returned"))

C20_Witness ==
    /\ mon.pc = "returned"
    /\ mon.received
    /\ ~mon.rootCancelled
    /\ \A r \in Workers : mon.routine[r] = "returned"

(***************************************************************************)
(* Further properties of the host-side construction.                       *)
(***************************************************************************)
\* C21: the closure registers DataSource, JuelsPerFeeCoinDataSource,
\* MedianProvider and ErrorLog one after the other in that order, each once
\* and only after the one before it succeeded; the composite request is
\* issued once, only after the four registrations, with the four IDs in
\* their own fields; after a failed registration no later dependency is
\* registered and no request is issued.
C21_ClientStepsSequential ==
    /\ [](\A c \in DOMAIN client :
            /\ \A k \in 1..4 : Cardinality(Served(c, DepNames[k])) <= 1
            /\ \A k \in 2..4 :
                  \A e \in Served(c, DepNames[k]) :
                      /\ Served(c, DepNames[k - 1]) # {}
                      /\ \A f \in Served(c, DepNames[k - 1]) : f.id < e.id
            /\ Requested(c) =>
                  \A k \in 1..4 :
                      \E e \in Served(c, DepNames[k]) :
                          e.id = RequestID(server[c].req, DepNames[k])
            /\ (/\ client[c].out.err.kind = "ErrConnAccept"
                /\ client[c].out.err.Name \in Range(DepNames)) =>
                  /\ ~Requested(c)
                  /\ \A k \in 1..4 :
                        Served(c, DepNames[k]) # {} =>
                            k < DepIndex(client[c].out.err.Name))
    /\ [][\A c \in DOMAIN client :
            Requested(c) => server'[c].req = server[c].req]_vars

C21_Witness ==
    /\ Requested(1)
    /\ server[1].req.DataSourceID = 1
    /\ server[1].req.JuelsPerFeeCoinDataSourceID = 2
    /\ server[1].req.MedianProviderID = 3
    /\ server[1].req.ErrorLogID = 4
    /\ Cardinality(hostServed) = 4

(***************************************************************************)
(* A further property of StandardOnchainConfigCodec.                       *)
(***************************************************************************)
\* C22: Encode does not compare Min and Max: for every pair within the
\* 32-byte signed range with Min above Max it succeeds and returns 96 bytes,
\* and Decode of exactly those bytes fails with the min-greater-than-max
\* error.
C22_EncodeAcceptsWhatDecodeRejects ==
    (/\ codec.op \in {"Encode", "EncodeDecode"}
     /\ InInt256(codec.cfg.Min)
     /\ InInt256(codec.cfg.Max)
     /\ Cmp(codec.cfg.Min, codec.cfg.Max) > 0) =>
        /\ codec.enc.err = ""
        /\ Len(codec.enc.bytes) = 96
        /\ codec.op = "EncodeDecode" =>
               /\ codec.buf = codec.enc.bytes
               /\ codec.dec.err = "min greater than max"
               /\ codec.dec.cfg = ZeroOnchainConfig

C22_Witness ==
    /\ codec.op = "EncodeDecode"
    /\ codec.cfg = OnchainConfig(MaxInt256, MinInt256)
    /\ Len(codec.buf) = 96
    /\ codec.dec.err = "min greater than max"

(***************************************************************************)
(* Further properties of PluginMedianClient.NewMedianFactory.              *)
(***************************************************************************)
\* C23: when the composite request succeeds, the four Resources registered
\* for it are handed back with the composite ID as the dependents of the new
\* client connection.
C23_SuccessHandsBackDeps ==
    \A c \in DOMAIN client :
        client[c].pc = "connected" =>
            /\ client[c].cc.id = server[c].reply.ReportingPluginFactoryID
            /\ Len(client[c].cc.deps) = 4
            /\ \A k \in 1..4 :
                  /\ client[c].cc.deps[k].name = DepNames[k]
                  /\ client[c].cc.deps[k] \in open

\* C24: NewMedianFactory itself returns a factory client and a nil error
\* whatever becomes of the construction: a failed registration or a failed
\* composite request shows in the result of the closure only.
C24_FactoryReturnedWithoutError ==
    \A c \in DOMAIN client :
        client[c].pc # "init" =>
            /\ client[c].factory
            /\ client[c].factoryErr = NoErr

C24_Witness ==
    /\ client[1].pc = "failed"
    /\ client[1].out.err # NoErr
    /\ client[1].factory
    /\ client[1].factoryErr = NoErr

(***************************************************************************)
(* A further property of medianContractClient.                             *)
(***************************************************************************)
\* C25: whenever LatestTransmissionDetails or LatestRoundRequested returns
\* an error, its other results are zero values: no config digest, epoch,
\* round, answer or timestamp comes with the error.
C25_ErrorMeansZeroResults ==
    (/\ rpc.method \in MedianContractMethods
     /\ rpc.stage = "done"
     /\ rpc.out.err # "") =>
        /\ rpc.out.configDigest = Zeros(32)
        /\ rpc.out.epoch = 0
        /\ rpc.out.round = 0
        /\ rpc.out.latestAnswer = NilBig
        /\ rpc.out.latestTimestamp = 0

(***************************************************************************)
(* The specification of the built-in logger.                               *)
(***************************************************************************)
LoggerNext ==
    \/ \E n \in {<<>>, <<"a">>, <<"b", "c">>} : LoggerNamed(n)
    \/ LoggerWith
    \/ \E skip \in {1} : LoggerHelper(skip)

LoggerSpec == Init /\ [][LoggerNext]_vars

(***************************************************************************)
(* A property of the built-in logger.                                      *)
(***************************************************************************)
\* C27: Named(l, n) yields a logger whose Name() is n when the name of l is
\* empty and l.Name() + "." + n otherwise, and the loggers With(l, ...) and
\* Helper(l, skip) return have the Name() of l, after any sequence of Named,
\* With and Helper.
C27_NamesKept ==
    /\ lg.op = "Named" =>
           Name(lg.l) = IF Name(lg.prev) = <<>> THEN lg.n
                        ELSE Name(lg.prev) \o <<".">> \o lg.n
    /\ lg.op \in {"With", "Helper"} => Name(lg.l) = Name(lg.prev)

(***************************************************************************)
(* The specification of hclSinkAdapter.                                    *)
(***************************************************************************)
SinkNext ==
    \/ \E g \in 1..NumAcceptors, name \in {<<"a">>, <<"b">>},
          level \in {"NoLevel", "Info"} : SinkAccept(g, name, level)
    \/ \E g \in 1..NumAcceptors : SinkLoadOrStore(g)
    \/ \E g \in 1..NumAcceptors : SinkOnceDo(g)
    \/ \E g \in 1..NumAcceptors : SinkOnceLock(g)
    \/ \E g \in 1..NumAcceptors : SinkNamed(g)
    \/ \E g \in 1..NumAcceptors : SinkLog(g)

SinkSpec == Init /\ [][SinkNext]_vars

(***************************************************************************)
(* A property of hclSinkAdapter.                                           *)
(***************************************************************************)
\* C26: in every interleaving of concurrent Accept calls, logger.Named is
\* called on the base logger at most once for each sink name, every Accept
\* for a name gets and logs through the one logger made for that name, and
\* the loggers of different names are not mixed up.
C26_OneLoggerPerName ==
    /\ \A i, j \in 1..Len(sink.namedCalls) :
          sink.namedCalls[i].name = sink.namedCalls[j].name => i = j
    /\ \A g \in 1..NumAcceptors :
          sink.pc[g] = "done" =>
              /\ sink.logger[g] \in 1..Len(sink.namedCalls)
              /\ sink.namedCalls[sink.logger[g]].name = sink.name[g]
              /\ Name(sink.namedCalls[sink.logger[g]].logger) = sink.name[g]
    /\ \A g \in 1..NumAcceptors : sink.pc[g] # "panicked"
    /\ \A e \in sink.logs :
          /\ e.logger \in 1..Len(sink.namedCalls)
          /\ sink.namedCalls[e.logger].name = e.name
    /\ \A e, f \in sink.logs : e.name = f.name => e.logger = f.logger

C26_Witness ==
    /\ \A g \in 1..NumAcceptors : sink.pc[g] = "done"
    /\ sink.name[1] = <<"a">>
    /\ sink.name[2] = <<"a">>
    /\ sink.name[3] = <<"b">>
    /\ sink.fn[1] = 2
    /\ sink.namedCalls[sink.logger[1]].by = 2
    /\ sink.logger[1] = sink.logger[2]
    /\ sink.logger[3] # sink.logger[1]
    /\ Cardinality(sink.logs) = 3

=============================================================================
